---------------------------- MODULE Spec2Model ----------------------------
(***************************************************************************)
(* Model of unrar-wrapper.                                                 *)
(*                                                                         *)
(*   generic dialect  (package lzmadec)      : parse7zListOutput           *)
(*   native-rar dialect (package unrarwrapper): parseUnRARListOutput       *)
(*   natural ordering (package unrarwrapper) : naturalCompare              *)
(*   volume resolution (package unrarwrapper): multiVolArchiveDetect       *)
(*   cached executable (package unrarwrapper): detectUnRARCached,          *)
(*                                             SetUnRARPath                *)
(*   extraction reader (package unrarwrapper): readCloser.Close            *)
(*   extraction (package unrarwrapper)       : ExtractToWriter             *)
(*                                                                         *)
(* Each part has its own specification (Spec, SpecNat, SpecVol, SpecPath,  *)
(* SpecClose, SpecExtract); the variables of the other parts keep their    *)
(* idle values in it.                                                      *)
(*                                                                         *)
(* A Go string is modelled as a sequence of one-character strings, so that *)
(* TrimSpace, SplitN, ToLower and ParseInt are computed character by       *)
(* character.  The input of a parser is the sequence of tokens that        *)
(* bufio.Scanner (ScanLines) yields for the byte buffer: one per line.     *)
(***************************************************************************)
EXTENDS Integers, Sequences, FiniteSets, TLC

VARIABLES
    dialect,   \* "7z" (parse7zListOutput) or "rar" (parseUnRARListOutput)
    input,     \* the lines of the listing handed to the parser
    listing,   \* the blocks the input was rendered from (<<>> for raw input)
    pc,        \* "start" before the parser ran, "done" after it returned
    res,       \* the returned []Entry (<<>> models nil)
    err,       \* the returned error
    \* naturalCompare and slices.SortFunc
    natPc,     \* "compare", "sort" before the call, "done" after, "idle"
    cmpA,      \* first operand of naturalCompare
    cmpB,      \* second operand of naturalCompare
    cmpOut,    \* [ab |-> naturalCompare(a, b), ba |-> naturalCompare(b, a)]
    files,     \* the slice handed to slices.SortFunc
    sorted,    \* the slice after slices.SortFunc
    \* multiVolArchiveDetect
    volPc,      \* "start" before the call, "done" after it, "idle"
    volDir,     \* the directory part of targetPath as written, and resolved
    volBase,    \* the file name of targetPath
    targetPath, \* the argument of multiVolArchiveDetect
    dirEntries, \* the names of the files in the directory of targetPath
    getwdFails, \* os.Getwd returns an error
    vol,        \* the values multiVolArchiveDetect returned
    \* the cached path of the unrar executable
    unrarPath,       \* the package variable unrarPath
    mu,              \* the goroutine that holds the mutex mu, 0 when free
    gpc,             \* where each goroutine is in its call
    storing,         \* the value each goroutine is storing into unrarPath
    cmdPath,         \* the path each goroutine last handed to exec.Command
    haveArchive,     \* some newArchive got as far as running the tool
    unguardedWrite,  \* unrarPath was written by a goroutine not holding mu
    changedAfterSet, \* a non-empty unrarPath was overwritten
    \* a reader returned by GetFileReader
    total,     \* the chunks of output the child process has to write
    toWrite,   \* the chunks it has not written yet
    pipeBuf,   \* the chunks in the stdout pipe
    readOpen,  \* the read end of the pipe (rc.rc) is open
    childPc,   \* "running" or "exited"
    callerPc,  \* 0: the reader is in use; i: at step i of Close; returned
    nRead,     \* the chunks the caller has read
    \* ExtractToWriter
    xPc,       \* "start" before the call, "done" after it, "idle"
    xEntries,  \* the names of a.Entries, in order
    xName,     \* the name asked for
    xEnv,      \* the errors cmd.StdoutPipe, cmd.Start, io.Copy and cmd.Wait give
    xOut       \* the returned error and what the call did

parserVars == <<dialect, input, listing, pc, res, err>>
natVars == <<natPc, cmpA, cmpB, cmpOut, files, sorted>>
volVars == <<volPc, volDir, volBase, targetPath, dirEntries, getwdFails, vol>>
pathVars == <<unrarPath, mu, gpc, storing, cmdPath, haveArchive,
              unguardedWrite, changedAfterSet>>
closeVars == <<total, toWrite, pipeBuf, readOpen, childPc, callerPc, nRead>>
extractVars == <<xPc, xEntries, xName, xEnv, xOut>>
vars == <<parserVars, natVars, volVars, pathVars, closeVars, extractVars>>

\* The values the variables of a part have in the specifications of the others.
NoCmp == [ab |-> 0, ba |-> 0]

NatIdle ==
    /\ natPc = "idle"
    /\ cmpA = <<>>
    /\ cmpB = <<>>
    /\ cmpOut = NoCmp
    /\ files = <<>>
    /\ sorted = <<>>

NoDir == [text |-> <<>>, abs |-> <<>>]
NoVol == [isMultiVol |-> FALSE, firstVolFullPath |-> <<>>, multiVolFiles |-> <<>>,
          err |-> "nil", calls |-> {}]

VolIdle ==
    /\ volPc = "idle"
    /\ volDir = NoDir
    /\ volBase = <<>>
    /\ targetPath = <<>>
    /\ dirEntries = {}
    /\ getwdFails = FALSE
    /\ vol = NoVol

PathIdle ==
    /\ unrarPath = <<>>
    /\ mu = 0
    /\ gpc = <<>>
    /\ storing = <<>>
    /\ cmdPath = <<>>
    /\ haveArchive = FALSE
    /\ unguardedWrite = FALSE
    /\ changedAfterSet = FALSE

CloseIdle ==
    /\ total = 0
    /\ toWrite = 0
    /\ pipeBuf = 0
    /\ readOpen = FALSE
    /\ childPc = "idle"
    /\ callerPc = 0
    /\ nRead = 0

NoEnv == [pipeErr |-> "nil", startErr |-> "nil", copyErr |-> "nil", waitErr |-> "nil"]
NoOut == [err |-> "nil", spawned |-> 0, closes |-> 0]

ExtractIdle ==
    /\ xPc = "idle"
    /\ xEntries = <<>>
    /\ xName = <<>>
    /\ xEnv = NoEnv
    /\ xOut = NoOut

-----------------------------------------------------------------------------
(* Bounds of the model.                                                    *)

MaxLines == 4
MaxLinesRar == 5
MaxBlocks == 3
MaxFields == 2

-----------------------------------------------------------------------------
(* Error values.                                                           *)

ErrNil == "nil"
ErrNoEntries == "ErrNoEntries"
ErrInvalidKV == "unexpected line, invalid key value pair"
ErrPathEmpty == "path field can not be empty"
ErrNameEmpty == "Name field can not be empty"
ErrSyntax == "strconv: invalid syntax"
ErrUnexpectedLines == "unexpected number of lines"

-----------------------------------------------------------------------------
(* Strings.                                                                *)

Min(S) == CHOOSE x \in S : \A y \in S : x <= y
Max(S) == CHOOSE x \in S : \A y \in S : x >= y

\* The white space of the model's alphabet (unicode.IsSpace).
WhiteSpace == {" ", "\t"}

\* strings.TrimSpace
TrimSpace(s) ==
    LET keep == {i \in 1..Len(s) : s[i] \notin WhiteSpace}
    IN  IF keep = {} THEN <<>> ELSE SubSeq(s, Min(keep), Max(keep))

\* strings.Index: the first position of sep in s, 0 when there is none.
Index(s, sep) ==
    LET at == {i \in 1..(Len(s) - Len(sep) + 1) :
                  SubSeq(s, i, i + Len(sep) - 1) = sep}
    IN  IF at = {} THEN 0 ELSE Min(at)

\* strings.SplitN(s, sep, 2)
SplitN2(s, sep) ==
    LET i == Index(s, sep)
    IN  IF i = 0 THEN <<s>>
        ELSE <<SubSeq(s, 1, i - 1), SubSeq(s, i + Len(sep), Len(s))>>

UpperCase == <<"A","B","C","D","E","F","G","H","I","J","K","L","M",
               "N","O","P","Q","R","S","T","U","V","W","X","Y","Z">>
LowerCase == <<"a","b","c","d","e","f","g","h","i","j","k","l","m",
               "n","o","p","q","r","s","t","u","v","w","x","y","z">>

\* strings.ToLower
ToLower(s) ==
    [i \in 1..Len(s) |->
        IF \E k \in 1..Len(UpperCase) : UpperCase[k] = s[i]
        THEN LowerCase[CHOOSE k \in 1..Len(UpperCase) : UpperCase[k] = s[i]]
        ELSE s[i]]

Digits == <<"0","1","2","3","4","5","6","7","8","9">>
IsDigit(c) == \E k \in 1..Len(Digits) : Digits[k] = c
DigitVal(c) == (CHOOSE k \in 1..Len(Digits) : Digits[k] = c) - 1

RECURSIVE DecimalValue(_)
DecimalValue(ds) ==
    IF ds = <<>> THEN 0
    ELSE 10 * DecimalValue(SubSeq(ds, 1, Len(ds) - 1)) + DigitVal(ds[Len(ds)])

\* strconv.ParseInt(v, 10, 64) and strconv.Atoi(v): an optional sign and at
\* least one decimal digit, anything else is a syntax error.  (The range
\* error needs more than 18 digits; the inputs of the model have at most 2.)
ParseInt(v) ==
    LET signed == v # <<>> /\ v[1] \in {"+", "-"}
        ds     == IF signed THEN Tail(v) ELSE v
    IN  IF ds = <<>> \/ \E i \in 1..Len(ds) : ~IsDigit(ds[i])
        THEN [val |-> 0, err |-> ErrSyntax]
        ELSE [val |-> IF signed /\ v[1] = "-" THEN 0 - DecimalValue(ds)
                      ELSE DecimalValue(ds),
              err |-> ErrNil]

\* The zero time.Time.
ZeroTime == <<>>

\* time.Parse(layout, v) with layout a pattern over "d" (a digit) and literal
\* characters; a value of another shape is an error and yields the zero time.
\* (The calendar range checks are left out: no input of the model holds a
\* time stamp of the right shape and a wrong range.)
TimeParse(layout, v) ==
    IF /\ Len(v) = Len(layout)
       /\ \A i \in 1..Len(v) :
             IF layout[i] = "d" THEN IsDigit(v[i]) ELSE v[i] = layout[i]
    THEN v ELSE ZeroTime

-----------------------------------------------------------------------------
(* The generic dialect: package lzmadec.                                   *)

\* timeLayout = "2006-01-02 15:04:05", a digit of the layout written d.
timeLayout == <<"d","d","d","d","-","d","d","-","d","d"," ","d","d",":","d","d",":","d","d">>

RpmSep == <<"-","-">>
NormalSep == <<"-","-","-","-","-","-","-","-","-","-">>

\* The zero value of Entry (var e Entry).
ZeroEntry ==
    [Path |-> <<>>, Size |-> 0, PackedSize |-> 0, PhysicalSize |-> 0,
     ClusterSize |-> 0, Modified |-> ZeroTime, Created |-> ZeroTime,
     Accessed |-> ZeroTime, Attributes |-> <<>>, CRC |-> <<>>,
     Encrypted |-> <<>>, Method |-> <<>>, Block |-> 0, Comment |-> <<>>,
     VolumeIndex |-> 0, Characteristics |-> <<>>, Offset |-> 0,
     Solid |-> <<>>, Commented |-> <<>>, SplitBefore |-> <<>>,
     SplitAfter |-> <<>>, AlternateStream |-> <<>>, SymbolicLink |-> <<>>,
     HardLink |-> <<>>, CopyLink |-> <<>>, Checksum |-> <<>>,
     NTSecurity |-> <<>>, Folder |-> <<>>, HostOS |-> <<>>,
     Version |-> <<>>, User |-> <<>>, Group |-> <<>>, Mode |-> <<>>,
     Type |-> <<>>]

\* advanceToFirstEntry, from the i-th token on, rpmSepCount being n: the
\* number of tokens consumed when it returns, and its error.
RECURSIVE advanceFrom(_, _, _)
advanceFrom(lines, i, n) ==
    IF i > Len(lines) THEN [pos |-> Len(lines), err |-> ErrNoEntries]
    ELSE LET s == lines[i]
             rpmSepCount == IF s = RpmSep THEN n + 1 ELSE n
         IN  IF rpmSepCount = 2 THEN [pos |-> i, err |-> ErrNil]
             ELSE IF s = NormalSep THEN [pos |-> i, err |-> ErrNil]
             ELSE advanceFrom(lines, i + 1, rpmSepCount)

\* Variant of advanceToFirstEntry: rpmSepCount starts at 1, so that the first
\* "--" line already positions the scan.
advanceToFirstEntry_firstRpmSep(lines) == advanceFrom(lines, 1, 1)

advanceToFirstEntry(lines) == advanceFrom(lines, 1, 0)

\* getEntryLines with the scanner having consumed pos tokens: the trimmed
\* lines up to a blank line or a separator line (which is consumed too), and
\* the number of tokens consumed afterwards.
RECURSIVE getEntryLinesFrom(_, _, _)
getEntryLinesFrom(lines, pos, acc) ==
    IF pos >= Len(lines) THEN [lines |-> acc, pos |-> Len(lines)]
    ELSE LET s == TrimSpace(lines[pos + 1])
         IN  IF s = <<>> THEN [lines |-> acc, pos |-> pos + 1]
             ELSE IF s = NormalSep THEN [lines |-> acc, pos |-> pos + 1]
             ELSE getEntryLinesFrom(lines, pos + 1, Append(acc, s))

\* Variant of getEntryLines: the line-count check that the function has in
\* comments (a block of 1 to 4 or of more than 23 lines is an error).
getEntryLines_lineCount(lines, pos) ==
    LET g == getEntryLinesFrom(lines, pos, <<>>)
        n == Len(g.lines)
    IN  IF (n >= 5 /\ n <= 23) \/ n = 0
        THEN [lines |-> g.lines, pos |-> g.pos, err |-> ErrNil]
        ELSE [lines |-> <<>>, pos |-> g.pos, err |-> ErrUnexpectedLines]

\* The scanner fails on no line of the model (scanner.Err() is nil).
getEntryLines(lines, pos) ==
    LET g == getEntryLinesFrom(lines, pos, <<>>)
    IN  [lines |-> g.lines, pos |-> g.pos, err |-> ErrNil]

\* Variant of valueOf: a blank value is left blank.
valueOf_noDefault(part) == TrimSpace(part)

\* v := strings.TrimSpace(parts[1]); if v == "" { v = "0" }
valueOf(part) ==
    LET v == TrimSpace(part)
    IN  IF v = <<>> THEN <<"0">> ELSE v

Key_path == <<"p","a","t","h">>
Key_size == <<"s","i","z","e">>
Key_packed_size == <<"p","a","c","k","e","d"," ","s","i","z","e">>
Key_modified == <<"m","o","d","i","f","i","e","d">>
Key_created == <<"c","r","e","a","t","e","d">>
Key_accessed == <<"a","c","c","e","s","s","e","d">>
Key_block == <<"b","l","o","c","k">>
Key_volume_index == <<"v","o","l","u","m","e"," ","i","n","d","e","x">>
Key_offset == <<"o","f","f","s","e","t">>
Key_physical_size == <<"p","h","y","s","i","c","a","l"," ","s","i","z","e">>
Key_cluster_size == <<"c","l","u","s","t","e","r"," ","s","i","z","e">>

\* The cases of the switch that store the value as it is: e.<field> = v.
StringFields ==
    <<[key |-> <<"a","t","t","r","i","b","u","t","e","s">>,
       field |-> "Attributes"],
      [key |-> <<"c","r","c">>,
       field |-> "CRC"],
      [key |-> <<"e","n","c","r","y","p","t","e","d">>,
       field |-> "Encrypted"],
      [key |-> <<"m","e","t","h","o","d">>,
       field |-> "Method"],
      [key |-> <<"c","o","m","m","e","n","t">>,
       field |-> "Comment"],
      [key |-> <<"s","o","l","i","d">>,
       field |-> "Solid"],
      [key |-> <<"c","o","m","m","e","n","t","e","d">>,
       field |-> "Commented"],
      [key |-> <<"s","p","l","i","t"," ","b","e","f","o","r","e">>,
       field |-> "SplitBefore"],
      [key |-> <<"s","p","l","i","t"," ","a","f","t","e","r">>,
       field |-> "SplitAfter"],
      [key |-> <<"f","o","l","d","e","r">>,
       field |-> "Folder"],
      [key |-> <<"h","o","s","t"," ","o","s">>,
       field |-> "HostOS"],
      [key |-> <<"v","e","r","s","i","o","n">>,
       field |-> "Version"],
      [key |-> <<"a","l","t","e","r","n","a","t","e"," ","s","t","r","e","a","m">>,
       field |-> "AlternateStream"],
      [key |-> <<"s","y","m","b","o","l","i","c"," ","l","i","n","k">>,
       field |-> "SymbolicLink"],
      [key |-> <<"h","a","r","d"," ","l","i","n","k">>,
       field |-> "HardLink"],
      [key |-> <<"c","o","p","y"," ","l","i","n","k">>,
       field |-> "CopyLink"],
      [key |-> <<"c","h","e","c","k","s","u","m">>,
       field |-> "Checksum"],
      [key |-> <<"n","t"," ","s","e","c","u","r","i","t","y">>,
       field |-> "NTSecurity"],
      [key |-> <<"c","h","a","r","a","c","t","e","r","i","s","t","i","c","s">>,
       field |-> "Characteristics"],
      [key |-> <<"m","o","d","e">>,
       field |-> "Mode"],
      [key |-> <<"u","s","e","r">>,
       field |-> "User"],
      [key |-> <<"g","r","o","u","p">>,
       field |-> "Group"],
      [key |-> <<"t","y","p","e">>,
       field |-> "Type"]>>

IsStringKey(name) == \E k \in 1..Len(StringFields) : StringFields[k].key = name
StringFieldOf(name) ==
    StringFields[CHOOSE k \in 1..Len(StringFields) : StringFields[k].key = name].field

\* case "packed size"
setPackedSize(e, v) ==
    IF v # <<>>
    THEN [e |-> [e EXCEPT !.PackedSize = ParseInt(v).val], err |-> ParseInt(v).err]
    ELSE [e |-> [e EXCEPT !.PackedSize = 0 - 1], err |-> ErrNil]

\* case "physical size"
setPhysicalSize(e, v) ==
    IF v # <<>>
    THEN LET e1 == [e EXCEPT !.PhysicalSize = ParseInt(v).val]
         IN  [e |-> IF e1.PackedSize <= 0
                    THEN [e1 EXCEPT !.PackedSize = e1.PhysicalSize] ELSE e1,
              err |-> ParseInt(v).err]
    ELSE [e |-> e, err |-> ErrNil]

\* case "cluster size"
setClusterSize(e, v) ==
    IF v # <<>>
    THEN LET e1 == [e EXCEPT !.ClusterSize = ParseInt(v).val]
         IN  [e |-> IF e1.Size <= 0
                    THEN [e1 EXCEPT !.Size = e1.ClusterSize] ELSE e1,
              err |-> ParseInt(v).err]
    ELSE [e |-> e, err |-> ErrNil]

\* The switch of parseEntryLines: the entry and the error after the line
\* with the lower-cased key name and the value v.
setField(e, name, v) ==
    CASE name = Key_path ->
            [e |-> [e EXCEPT !.Path = v],
             err |-> IF v = <<>> THEN ErrPathEmpty ELSE ErrNil]
      [] name = Key_size ->
            [e |-> [e EXCEPT !.Size = ParseInt(v).val], err |-> ParseInt(v).err]
      [] name = Key_packed_size -> setPackedSize(e, v)
      [] name = Key_modified ->
            [e |-> [e EXCEPT !.Modified = TimeParse(timeLayout, v)], err |-> ErrNil]
      [] name = Key_created ->
            [e |-> [e EXCEPT !.Created = TimeParse(timeLayout, v)], err |-> ErrNil]
      [] name = Key_accessed ->
            [e |-> [e EXCEPT !.Accessed = TimeParse(timeLayout, v)], err |-> ErrNil]
      [] name = Key_block ->
            [e |-> [e EXCEPT !.Block = ParseInt(v).val], err |-> ParseInt(v).err]
      [] name = Key_volume_index ->
            [e |-> [e EXCEPT !.VolumeIndex = ParseInt(v).val], err |-> ParseInt(v).err]
      [] name = Key_offset ->
            [e |-> [e EXCEPT !.Offset = ParseInt(v).val], err |-> ParseInt(v).err]
      [] name = Key_physical_size -> setPhysicalSize(e, v)
      [] name = Key_cluster_size -> setClusterSize(e, v)
      [] IsStringKey(name) ->
            [e |-> [e EXCEPT ![StringFieldOf(name)] = v], err |-> ErrNil]
      [] OTHER -> [e |-> e, err |-> ErrNil]

\* The loop of parseEntryLines from the i-th line on.
RECURSIVE parseEntryLinesFrom(_, _, _)
parseEntryLinesFrom(lines, i, e) ==
    IF i > Len(lines) THEN [e |-> e, err |-> ErrNil]
    ELSE LET parts == SplitN2(lines[i], <<" ", "=">>)
         IN  IF Len(parts) # 2 THEN [e |-> e, err |-> ErrInvalidKV]
             ELSE LET name == ToLower(parts[1])
                      v    == valueOf(parts[2])
                      r    == setField(e, name, v)
                  IN  IF r.err # ErrNil THEN r
                      ELSE parseEntryLinesFrom(lines, i + 1, r.e)

parseEntryLines(lines) == parseEntryLinesFrom(lines, 1, ZeroEntry)

\* Variant of fixupAttributes: the Folder value wins over an Attributes value.
fixupAttributes_always(e) ==
    IF e.Folder = <<"+">> THEN [e EXCEPT !.Attributes = <<"D">>]
    ELSE IF e.Folder = <<"-">> THEN [e EXCEPT !.Attributes = <<"A">>]
    ELSE e

\* fixup empty Attributes for .iso
fixupAttributes(e) ==
    IF e.Attributes = <<>> /\ e.Folder # <<>>
    THEN IF e.Folder = <<"+">> THEN [e EXCEPT !.Attributes = <<"D">>]
         ELSE IF e.Folder = <<"-">> THEN [e EXCEPT !.Attributes = <<"A">>]
         ELSE e
    ELSE e

\* Variant of blockFailed: the entries parsed so far are returned.
blockFailed_partial(entries, e) == [res |-> entries, err |-> e]

\* What parse7zListOutput returns when a block fails to parse: return nil, err.
blockFailed(entries, e) == [res |-> <<>>, err |-> e]

\* Variant of lastEntry: a listing without an entry is ErrNoEntries.
lastEntry_noEntries(entries) ==
    IF entries = <<>> THEN [res |-> <<>>, err |-> ErrNoEntries]
    ELSE [res |-> entries, err |-> ErrNil]

\* What parse7zListOutput returns when getEntryLines yields no line: the
\* loop breaks and res is returned.
lastEntry(entries) == [res |-> entries, err |-> ErrNil]

\* The for loop of parse7zListOutput, the scanner having consumed pos tokens.
RECURSIVE parseLoop(_, _, _)
parseLoop(lines, pos, entries) ==
    LET g == getEntryLines(lines, pos)
    IN  IF g.err # ErrNil THEN [res |-> <<>>, err |-> g.err]
        ELSE IF Len(g.lines) = 0 THEN lastEntry(entries)
        ELSE LET p == parseEntryLines(g.lines)
             IN  IF p.err # ErrNil THEN blockFailed(entries, p.err)
                 ELSE parseLoop(lines, g.pos,
                                Append(entries, fixupAttributes(p.e)))

parse7zListOutput(d) ==
    LET a == advanceToFirstEntry(d)
    IN  IF a.err # ErrNil THEN [res |-> <<>>, err |-> a.err]
        ELSE parseLoop(d, a.pos, <<>>)

-----------------------------------------------------------------------------
(* The native-rar dialect: package unrarwrapper.                           *)

\* timeLayout = "2006-01-02 15:04:05,000000000", a digit written d.
rarTimeLayout == <<"d","d","d","d","-","d","d","-","d","d"," ","d","d",":","d","d",":","d","d",",","d","d","d","d","d","d","d","d","d">>

\* const NormalSep = "\n"
rarNormalSep == <<"\n">>

\* detailsRe = `^Details: RAR(.+)$`
DetailsPrefix == <<"D","e","t","a","i","l","s",":"," ","R","A","R">>
detailsReMatch(s) ==
    /\ Len(s) > Len(DetailsPrefix)
    /\ SubSeq(s, 1, Len(DetailsPrefix)) = DetailsPrefix

\* The zero value of the native-rar Entry.
rarZeroEntry ==
    [Name |-> <<>>, Size |-> 0, PackedSize |-> 0, Ratio |-> <<>>,
     Modified |-> ZeroTime, Attributes |-> <<>>, CRC |-> <<>>,
     HostOS |-> <<>>, Compression |-> <<>>, Flags |-> <<>>, Type |-> <<>>]

\* advanceToFirstEntry of unrar.go from the i-th token on: the line after
\* the details line is consumed by the extra scanner.Scan().
RECURSIVE rarAdvanceFrom(_, _)
rarAdvanceFrom(lines, i) ==
    IF i > Len(lines) THEN [pos |-> Len(lines), err |-> ErrNoEntries]
    ELSE IF detailsReMatch(lines[i])
         THEN [pos |-> IF i + 1 <= Len(lines) THEN i + 1 ELSE Len(lines),
               err |-> ErrNil]
         ELSE rarAdvanceFrom(lines, i + 1)

rarAdvanceToFirstEntry(lines) == rarAdvanceFrom(lines, 1)

\* getEntryLines of unrar.go.
RECURSIVE rarGetEntryLinesFrom(_, _, _)
rarGetEntryLinesFrom(lines, pos, acc) ==
    IF pos >= Len(lines) THEN [lines |-> acc, pos |-> Len(lines)]
    ELSE LET s == TrimSpace(lines[pos + 1])
         IN  IF s = <<>> THEN [lines |-> acc, pos |-> pos + 1]
             ELSE IF s = rarNormalSep THEN [lines |-> acc, pos |-> pos + 1]
             ELSE rarGetEntryLinesFrom(lines, pos + 1, Append(acc, s))

rarGetEntryLines(lines, pos) ==
    LET g == rarGetEntryLinesFrom(lines, pos, <<>>)
    IN  [lines |-> g.lines, pos |-> g.pos, err |-> ErrNil]

Key_name == <<"n","a","m","e">>
Key_mtime == <<"m","t","i","m","e">>

\* The cases of the switch that store the value as it is.
rarStringFields ==
    <<[key |-> <<"t","y","p","e">>,
       field |-> "Type"],
      [key |-> <<"r","a","t","i","o">>,
       field |-> "Ratio"],
      [key |-> <<"a","t","t","r","i","b","u","t","e","s">>,
       field |-> "Attributes"],
      [key |-> <<"c","r","c","3","2">>,
       field |-> "CRC"],
      [key |-> <<"h","o","s","t"," ","o","s">>,
       field |-> "HostOS"],
      [key |-> <<"c","o","m","p","r","e","s","s","i","o","n">>,
       field |-> "Compression"],
      [key |-> <<"f","l","a","g","s">>,
       field |-> "Flags"]>>

rarIsStringKey(name) ==
    \E k \in 1..Len(rarStringFields) : rarStringFields[k].key = name
rarStringFieldOf(name) ==
    rarStringFields[CHOOSE k \in 1..Len(rarStringFields) :
                        rarStringFields[k].key = name].field

\* The switch of parseEntryLines of unrar.go.
rarSetField(e, name, v) ==
    CASE name = Key_name ->
            [e |-> [e EXCEPT !.Name = v],
             err |-> IF v = <<>> THEN ErrNameEmpty ELSE ErrNil]
      [] name = Key_size ->
            [e |-> [e EXCEPT !.Size = ParseInt(v).val], err |-> ParseInt(v).err]
      [] name = Key_packed_size ->
            IF v # <<>>
            THEN [e |-> [e EXCEPT !.PackedSize = ParseInt(v).val],
                  err |-> ParseInt(v).err]
            ELSE [e |-> [e EXCEPT !.PackedSize = 0 - 1], err |-> ErrNil]
      [] name = Key_mtime ->
            [e |-> [e EXCEPT !.Modified = TimeParse(rarTimeLayout, v)],
             err |-> ErrNil]
      [] rarIsStringKey(name) ->
            [e |-> [e EXCEPT ![rarStringFieldOf(name)] = v], err |-> ErrNil]
      [] OTHER -> [e |-> e, err |-> ErrNil]

\* The loop of parseEntryLines of unrar.go from the i-th line on.
RECURSIVE rarParseEntryLinesFrom(_, _, _)
rarParseEntryLinesFrom(lines, i, e) ==
    IF i > Len(lines) THEN [e |-> e, err |-> ErrNil]
    ELSE LET parts == SplitN2(lines[i], <<":", " ">>)
         IN  IF Len(parts) # 2 THEN [e |-> e, err |-> ErrInvalidKV]
             ELSE LET name == ToLower(parts[1])
                      v    == TrimSpace(parts[2])
                      r    == rarSetField(e, name, v)
                  IN  IF r.err # ErrNil THEN r
                      ELSE rarParseEntryLinesFrom(lines, i + 1, r.e)

rarParseEntryLines(lines) == rarParseEntryLinesFrom(lines, 1, rarZeroEntry)

\* Variant of rarLastEntry: a listing without an entry is ErrNoEntries.
rarLastEntry_noEntries(entries) ==
    IF entries = <<>> THEN [res |-> <<>>, err |-> ErrNoEntries]
    ELSE [res |-> entries, err |-> ErrNil]

\* What parseUnRARListOutput returns when getEntryLines yields no line.
rarLastEntry(entries) == [res |-> entries, err |-> ErrNil]

\* The for loop of parseUnRARListOutput; an entry without a name is skipped.
RECURSIVE rarParseLoop(_, _, _)
rarParseLoop(lines, pos, entries) ==
    LET g == rarGetEntryLines(lines, pos)
    IN  IF g.err # ErrNil THEN [res |-> <<>>, err |-> g.err]
        ELSE IF Len(g.lines) = 0 THEN rarLastEntry(entries)
        ELSE LET p == rarParseEntryLines(g.lines)
             IN  IF p.err # ErrNil THEN [res |-> <<>>, err |-> p.err]
                 ELSE IF p.e.Name = <<>>
                      THEN rarParseLoop(lines, g.pos, entries)
                      ELSE rarParseLoop(lines, g.pos, Append(entries, p.e))

parseUnRARListOutput(d) ==
    LET a == rarAdvanceToFirstEntry(d)
    IN  IF a.err # ErrNil THEN [res |-> <<>>, err |-> a.err]
        ELSE rarParseLoop(d, a.pos, <<>>)

-----------------------------------------------------------------------------
(* The listings handed to the generic parser.                              *)

Blank == <<>>
EqSign == <<" ", "=", " ">>

\* A line of the listing as 7z prints it: "Key = value".
Render(f) == f.key \o EqSign \o f.val

RenderBlock(b) == [i \in 1..Len(b) |-> Render(b[i])]

\* The blocks of a listing, one blank line between two blocks.
RECURSIVE RenderBlocks(_)
RenderBlocks(bs) ==
    IF bs = <<>> THEN <<>>
    ELSE IF Len(bs) = 1 THEN RenderBlock(bs[1])
    ELSE RenderBlock(bs[1]) \o <<Blank>> \o RenderBlocks(Tail(bs))

RenderListing(l) == l.pre \o RenderBlocks(l.blocks) \o l.trail

SeqsUpTo(S, n) == UNION {[1..k -> S] : k \in 0..n}

\* Lines of a raw listing: separators, blank lines, key/value lines, a line
\* that is no key/value pair.
Lines7z ==
    { NormalSep, RpmSep, Blank, <<" ">>,
      <<"P","a","t","h"," ","="," ","a">>,
      <<"P","a","t","h"," ","="," ">>,
      <<"S","i","z","e"," ","="," ","1">>,
      <<"S","i","z","e"," ","="," ","x">>,
      <<"j","u","n","k">> }

Banner == <<"7","-","Z","i","p"," ","1","6",".","0","2">>

\* What precedes the first block: the separator line alone, after a banner,
\* or the second "--" line of the rpm dialect.
Preambles ==
    { <<NormalSep>>,
      <<Banner, Blank, NormalSep>>,
      <<RpmSep, <<"P","a","t","h"," ","="," ","x",".","r","p","m">>, RpmSep>> }

\* Blocks of a listing of several blocks.
BlockTemplates ==
    { <<[key |-> <<"P","a","t","h">>, val |-> <<"a">>], [key |-> <<"S","i","z","e">>, val |-> <<"1">>]>>,
      <<[key |-> <<"P","a","t","h">>, val |-> <<"b">>], [key |-> <<"F","o","l","d","e","r">>, val |-> <<"+">>]>>,
      <<[key |-> <<"P","a","t","h">>, val |-> <<>>], [key |-> <<"P","a","c","k","e","d"," ","S","i","z","e">>, val |-> <<>>]>>,
      <<[key |-> <<"P","a","t","h">>, val |-> <<"c">>], [key |-> <<"S","i","z","e">>, val |-> <<"x">>]>>,
      <<[key |-> <<"S","i","z","e">>, val |-> <<"1">>]>> }

\* Fields of a listing of one block.
Fields7z ==
    { [key |-> <<"P","a","t","h">>, val |-> <<"a">>], [key |-> <<"P","a","t","h">>, val |-> <<>>],
      [key |-> <<"S","i","z","e">>, val |-> <<"3">>], [key |-> <<"S","i","z","e">>, val |-> <<>>], [key |-> <<"S","i","z","e">>, val |-> <<"x">>],
      [key |-> <<"P","a","c","k","e","d"," ","S","i","z","e">>, val |-> <<"2">>], [key |-> <<"P","a","c","k","e","d"," ","S","i","z","e">>, val |-> <<"0">>], [key |-> <<"P","a","c","k","e","d"," ","S","i","z","e">>, val |-> <<>>], [key |-> <<"P","a","c","k","e","d"," ","S","i","z","e">>, val |-> <<"-","1">>],
      [key |-> <<"P","h","y","s","i","c","a","l"," ","S","i","z","e">>, val |-> <<"5">>], [key |-> <<"P","h","y","s","i","c","a","l"," ","S","i","z","e">>, val |-> <<>>],
      [key |-> <<"C","l","u","s","t","e","r"," ","S","i","z","e">>, val |-> <<"4">>],
      [key |-> <<"A","t","t","r","i","b","u","t","e","s">>, val |-> <<"A">>], [key |-> <<"A","t","t","r","i","b","u","t","e","s">>, val |-> <<>>],
      [key |-> <<"F","o","l","d","e","r">>, val |-> <<"+">>], [key |-> <<"F","o","l","d","e","r">>, val |-> <<"-">>],
      [key |-> <<"B","l","o","c","k">>, val |-> <<>>], [key |-> <<"V","o","l","u","m","e"," ","I","n","d","e","x">>, val |-> <<>>], [key |-> <<"O","f","f","s","e","t">>, val |-> <<>>],
      [key |-> <<"C","o","m","m","e","n","t">>, val |-> <<>>], [key |-> <<"M","o","d","i","f","i","e","d">>, val |-> <<>>] }

NoListing == [kind |-> "raw", pre |-> <<>>, blocks |-> <<>>, trail |-> <<>>]

Init7zRaw ==
    /\ dialect = "7z"
    /\ input \in SeqsUpTo(Lines7z, MaxLines)
    /\ listing = NoListing

Init7zBlocks ==
    /\ dialect = "7z"
    /\ \E pre \in Preambles, bs \in SeqsUpTo(BlockTemplates, MaxBlocks),
          trail \in {<<>>, <<Blank>>} :
          listing = [kind |-> "blocks", pre |-> pre, blocks |-> bs, trail |-> trail]
    /\ input = RenderListing(listing)

Init7zFields ==
    /\ dialect = "7z"
    /\ \E b \in SeqsUpTo(Fields7z, MaxFields) :
          /\ b # <<>>
          /\ listing = [kind |-> "fields", pre |-> <<NormalSep>>,
                        blocks |-> <<b>>, trail |-> <<Blank>>]
    /\ input = RenderListing(listing)

\* The call parse7zListOutput(d).
Parse7z ==
    /\ pc = "start"
    /\ dialect = "7z"
    /\ LET r == parse7zListOutput(input)
       IN  /\ res' = r.res
           /\ err' = r.err
    /\ pc' = "done"
    /\ UNCHANGED <<dialect, input, listing>>
    /\ UNCHANGED <<natVars, volVars, pathVars, closeVars, extractVars>>

-----------------------------------------------------------------------------
(* The listings handed to the native-rar parser.                           *)

ColonSpace == <<":", " ">>

\* A line of the listing as unrar prints it: "Key: value".
RenderRar(f) == f.key \o ColonSpace \o f.val

RenderRarBlock(b) == [i \in 1..Len(b) |-> RenderRar(b[i])]

RECURSIVE RenderRarBlocks(_)
RenderRarBlocks(bs) ==
    IF bs = <<>> THEN <<>>
    ELSE IF Len(bs) = 1 THEN RenderRarBlock(bs[1])
    ELSE RenderRarBlock(bs[1]) \o <<Blank>> \o RenderRarBlocks(Tail(bs))

RenderRarListing(l) == l.pre \o RenderRarBlocks(l.blocks) \o l.trail

DetailsLine == <<"D","e","t","a","i","l","s",":"," ","R","A","R"," ","5">>

LinesRar ==
    { DetailsLine, Blank,
      <<" "," "," "," "," "," "," "," ","N","a","m","e",":"," ","a">>,
      <<" "," "," "," "," "," "," "," ","N","a","m","e",":"," ">>,
      <<" "," "," "," "," "," "," "," ","T","y","p","e",":"," ","F","i","l","e">> }

RarPreambles ==
    { <<DetailsLine, Blank>>,
      <<<<"U","N","R","A","R"," ","7",".","0","0"," ","f","r","e","e","w","a","r","e">>, Blank, <<"A","r","c","h","i","v","e",":"," ","x",".","r","a","r">>, DetailsLine, Blank>> }

RarBlockTemplates ==
    { <<[key |-> <<" "," "," "," "," "," "," "," ","N","a","m","e">>, val |-> <<"a">>], [key |-> <<" "," "," "," "," "," "," "," ","T","y","p","e">>, val |-> <<"F","i","l","e">>]>>,
      <<[key |-> <<" "," "," "," "," "," "," "," ","N","a","m","e">>, val |-> <<"b">>], [key |-> <<" "," "," "," "," "," "," "," ","S","i","z","e">>, val |-> <<"1">>], [key |-> <<" ","P","a","c","k","e","d"," ","s","i","z","e">>, val |-> <<>>]>>,
      <<[key |-> <<" "," "," "," "," "," "," "," ","N","a","m","e">>, val |-> <<>>], [key |-> <<" "," "," "," "," "," "," "," ","T","y","p","e">>, val |-> <<"F","i","l","e">>]>>,
      <<[key |-> <<" "," "," "," "," "," "," "," ","T","y","p","e">>, val |-> <<"F","i","l","e">>]>>,
      <<[key |-> <<" "," "," "," "," "," "," "," ","N","a","m","e">>, val |-> <<"c">>], [key |-> <<" "," "," "," "," "," "," "," ","S","i","z","e">>, val |-> <<"x">>]>> }

InitRarRaw ==
    /\ dialect = "rar"
    /\ input \in SeqsUpTo(LinesRar, MaxLinesRar)
    /\ listing = NoListing

InitRarBlocks ==
    /\ dialect = "rar"
    /\ \E pre \in RarPreambles, bs \in SeqsUpTo(RarBlockTemplates, MaxBlocks),
          trail \in {<<>>, <<Blank>>} :
          listing = [kind |-> "blocks", pre |-> pre, blocks |-> bs, trail |-> trail]
    /\ input = RenderRarListing(listing)

\* The call parseUnRARListOutput(d).
ParseRar ==
    /\ pc = "start"
    /\ dialect = "rar"
    /\ LET r == parseUnRARListOutput(input)
       IN  /\ res' = r.res
           /\ err' = r.err
    /\ pc' = "done"
    /\ UNCHANGED <<dialect, input, listing>>
    /\ UNCHANGED <<natVars, volVars, pathVars, closeVars, extractVars>>

Init ==
    /\ pc = "start"
    /\ res = <<>>
    /\ err = ErrNil
    /\ NatIdle
    /\ VolIdle
    /\ PathIdle
    /\ CloseIdle
    /\ ExtractIdle
    /\ \/ Init7zRaw
       \/ Init7zBlocks
       \/ Init7zFields
       \/ InitRarRaw
       \/ InitRarBlocks

Next ==
    \/ Parse7z
    \/ ParseRar

Spec == Init /\ [][Next]_vars

-----------------------------------------------------------------------------
(* Natural ordering: src/unnamed/part_002 (package unrarwrapper).          *)

ErrRange == "value out of range"

\* The bytes that occur in the strings of the model, in increasing order.
Ascii ==
    <<" ", "*", "-", ".", "/",
      "0", "1", "2", "3", "4", "5", "6", "7", "8", "9",
      "A", "B", "C", "D", "E", "F", "G", "H", "I", "J", "K", "L", "M",
      "N", "O", "P", "Q", "R", "S", "T", "U", "V", "W", "X", "Y", "Z",
      "[", "]", "_",
      "a", "b", "c", "d", "e", "f", "g", "h", "i", "j", "k", "l", "m",
      "n", "o", "p", "q", "r", "s", "t", "u", "v", "w", "x", "y", "z">>

ByteOrder(c) == CHOOSE i \in 1..Len(Ascii) : Ascii[i] = c

\* Go's s < t on strings: bytewise lexicographic.
RECURSIVE StringLessFrom(_, _, _)
StringLessFrom(s, t, i) ==
    IF i > Len(t) THEN FALSE
    ELSE IF i > Len(s) THEN TRUE
    ELSE IF s[i] = t[i] THEN StringLessFrom(s, t, i + 1)
    ELSE ByteOrder(s[i]) < ByteOrder(t[i])

StringLess(s, t) == StringLessFrom(s, t, 1)

\* chunkifyRegexp (\d+|\D+): the maximal runs of digits and of non-digits.
RECURSIVE RunEnd(_, _)
RunEnd(s, i) ==
    IF i < Len(s) /\ IsDigit(s[i + 1]) = IsDigit(s[i]) THEN RunEnd(s, i + 1)
    ELSE i

RECURSIVE chunkifyFrom(_, _)
chunkifyFrom(s, i) ==
    IF i > Len(s) THEN <<>>
    ELSE <<SubSeq(s, i, RunEnd(s, i))>> \o chunkifyFrom(s, RunEnd(s, i) + 1)

chunkify(s) == chunkifyFrom(s, 1)

\* strconv.Atoi on a chunk.  The value of a digit run is kept as its decimal
\* digits without leading zeros, so that runs of any length are compared
\* without overflow in the model; int is 64 bits wide.
MaxInt == <<"9","2","2","3","3","7","2","0","3","6","8","5","4","7","7","5","8","0","7">>

RECURSIVE StripZeros(_)
StripZeros(s) ==
    IF Len(s) > 1 /\ s[1] = "0" THEN StripZeros(Tail(s)) ELSE s

\* Variant of IntLess: the decimal digits are compared as bytes.
IntLess_bytes(x, y) == StringLess(x, y)

\* aInt < bInt on the digits of two values.
IntLess(x, y) ==
    \/ Len(x) < Len(y)
    \/ Len(x) = Len(y) /\ StringLess(x, y)

Atoi(s) ==
    IF s = <<>> \/ \E i \in 1..Len(s) : ~IsDigit(s[i])
    THEN [val |-> <<"0">>, err |-> ErrSyntax]
    ELSE IF IntLess(MaxInt, StripZeros(s))
         THEN [val |-> MaxInt, err |-> ErrRange]
         ELSE [val |-> StripZeros(s), err |-> ErrNil]

\* Variant of lastChunk: the operand whose last chunk was reached is greater.
lastChunk_endsAfter(i, nChunksA, nChunksB) ==
    IF i = nChunksA THEN 1
    ELSE IF i = nChunksB THEN -1
    ELSE 0

\* The tie-break of two equal chunks at position i (lines 78-85 and 98-105):
\* -1 when it is the last chunk of A, else 1 when it is the last chunk of B,
\* else 0 (continue).
lastChunk(i, nChunksA, nChunksB) ==
    IF i = nChunksA THEN -1
    ELSE IF i = nChunksB THEN 1
    ELSE 0

\* The loop of naturalCompare from chunk i on (chunks are numbered from 1).
RECURSIVE naturalCompareFrom(_, _, _)
naturalCompareFrom(chunksA, chunksB, i) ==
    IF i > Len(chunksA) THEN 1
    ELSE IF i > Len(chunksB) THEN 1
    ELSE LET aInt == Atoi(chunksA[i])
             bInt == Atoi(chunksB[i])
             tie == lastChunk(i, Len(chunksA), Len(chunksB))
         IN  IF aInt.err = ErrNil /\ bInt.err = ErrNil
             THEN IF aInt.val = bInt.val
                  THEN IF tie # 0 THEN tie
                       ELSE naturalCompareFrom(chunksA, chunksB, i + 1)
                  ELSE IF IntLess(aInt.val, bInt.val) THEN -1 ELSE 1
             ELSE IF chunksA[i] = chunksB[i]
                  THEN IF tie # 0 THEN tie
                       ELSE naturalCompareFrom(chunksA, chunksB, i + 1)
                  ELSE IF StringLess(chunksA[i], chunksB[i]) THEN -1 ELSE 1

naturalCompare(a, b) ==
    IF a = b THEN 0
    ELSE naturalCompareFrom(chunkify(a), chunkify(b), 1)

\* slices.SortFunc(x, naturalCompare).  For a slice of at most 12 elements
\* the library sorts by insertion: element i moves down while it compares
\* below its predecessor.
RECURSIVE insertDown(_, _)
insertDown(x, j) ==
    IF j > 1 /\ naturalCompare(x[j], x[j - 1]) < 0
    THEN insertDown([x EXCEPT ![j] = x[j - 1], ![j - 1] = x[j]], j - 1)
    ELSE x

RECURSIVE insertionSortFrom(_, _)
insertionSortFrom(x, i) ==
    IF i > Len(x) THEN x
    ELSE insertionSortFrom(insertDown(x, i), i + 1)

SortFunc(x) == insertionSortFrom(x, 2)

-----------------------------------------------------------------------------
(* The operands handed to naturalCompare and the slices handed to          *)
(* slices.SortFunc.                                                        *)

MaxPieces == 3
MaxFiles == 3

ParserIdle ==
    /\ dialect = "none"
    /\ input = <<>>
    /\ listing = NoListing
    /\ pc = "idle"
    /\ res = <<>>
    /\ err = ErrNil

RECURSIVE Concat(_)
Concat(ss) == IF ss = <<>> THEN <<>> ELSE Head(ss) \o Concat(Tail(ss))

NatPieces == {<<"a">>, <<"0">>, <<"1">>, <<"2">>}

\* Part numbers: those of TestNaturalCompare, the largest int + 1 and 10^19.
PartNumbers ==
    { <<"1">>, <<"2">>, <<"3">>, <<"2","0">>, <<"3","0">>,
      <<"9","2","2","3","3","7","2","0","3","6","8","5","4","7","7","5","8","0","8">>,
      <<"1","0","0","0","0","0","0","0","0","0","0","0","0","0","0","0","0","0","0","0">> }

PartName(n) == <<"b","a","s","e","n","a","m","e",".","p","a","r","t">> \o n \o <<".","r","a","r">>

PartNames == {PartName(n) : n \in PartNumbers}

\* The slice sorted by TestNaturalCompare.
TestNames == <<PartName(<<"2","0">>), PartName(<<"3","0">>), PartName(<<"1">>),
               PartName(<<"2">>), PartName(<<"3">>)>>

NatStrings == {Concat(ss) : ss \in SeqsUpTo(NatPieces, MaxPieces)} \cup PartNames

Injective(x) == \A i, j \in 1..Len(x) : x[i] = x[j] => i = j

Permutations5 ==
    {[i \in 1..5 |-> TestNames[f[i]]] : f \in {g \in [1..5 -> 1..5] : Injective(g)}}

InitCompare ==
    /\ natPc = "compare"
    /\ cmpA \in NatStrings
    /\ cmpB \in NatStrings
    /\ cmpOut = NoCmp
    /\ files = <<>>
    /\ sorted = <<>>

InitSort ==
    /\ natPc = "sort"
    /\ cmpA = <<>>
    /\ cmpB = <<>>
    /\ cmpOut = NoCmp
    /\ files \in {x \in SeqsUpTo(PartNames, MaxFiles) : Injective(x)} \cup Permutations5
    /\ sorted = <<>>

\* The calls naturalCompare(a, b) and naturalCompare(b, a).
NaturalCompare ==
    /\ natPc = "compare"
    /\ cmpOut' = [ab |-> naturalCompare(cmpA, cmpB), ba |-> naturalCompare(cmpB, cmpA)]
    /\ natPc' = "compared"
    /\ UNCHANGED <<cmpA, cmpB, files, sorted>>
    /\ UNCHANGED <<parserVars, volVars, pathVars, closeVars, extractVars>>

\* The call slices.SortFunc(files, naturalCompare).
SortFiles ==
    /\ natPc = "sort"
    /\ sorted' = SortFunc(files)
    /\ natPc' = "sorted"
    /\ UNCHANGED <<cmpA, cmpB, cmpOut, files>>
    /\ UNCHANGED <<parserVars, volVars, pathVars, closeVars, extractVars>>

InitNat ==
    /\ ParserIdle
    /\ VolIdle
    /\ PathIdle
    /\ CloseIdle
    /\ ExtractIdle
    /\ \/ InitCompare
       \/ InitSort

NextNat ==
    \/ NaturalCompare
    \/ SortFiles

SpecNat == InitNat /\ [][NextNat]_vars

-----------------------------------------------------------------------------
(* Paths (path/filepath on a system whose separator is "/").               *)

Slash == "/"

LastSlash(path) ==
    IF \E i \in 1..Len(path) : path[i] = Slash
    THEN Max({i \in 1..Len(path) : path[i] = Slash})
    ELSE 0

\* The elements of path between its separators.
RECURSIVE SplitPath(_)
SplitPath(path) ==
    IF \A i \in 1..Len(path) : path[i] # Slash THEN <<path>>
    ELSE LET k == Min({i \in 1..Len(path) : path[i] = Slash})
         IN  <<SubSeq(path, 1, k - 1)>> \o SplitPath(SubSeq(path, k + 1, Len(path)))

RECURSIVE JoinElems(_)
JoinElems(es) ==
    IF es = <<>> THEN <<>>
    ELSE IF Len(es) = 1 THEN es[1]
    ELSE es[1] \o <<Slash>> \o JoinElems(Tail(es))

DotDot == <<".", ".">>

\* filepath.Clean: empty and "." elements are dropped, ".." removes the
\* element before it.
RECURSIVE CleanElems(_, _, _)
CleanElems(es, acc, rooted) ==
    IF es = <<>> THEN acc
    ELSE LET e == Head(es)
         IN  IF e = <<>> \/ e = <<".">> THEN CleanElems(Tail(es), acc, rooted)
             ELSE IF e = DotDot
                  THEN IF acc # <<>> /\ acc[Len(acc)] # DotDot
                       THEN CleanElems(Tail(es), SubSeq(acc, 1, Len(acc) - 1), rooted)
                       ELSE IF rooted THEN CleanElems(Tail(es), acc, rooted)
                       ELSE CleanElems(Tail(es), Append(acc, e), rooted)
                  ELSE CleanElems(Tail(es), Append(acc, e), rooted)

IsAbs(path) == path # <<>> /\ path[1] = Slash

Clean(path) ==
    IF path = <<>> THEN <<".">>
    ELSE LET out == (IF IsAbs(path) THEN <<Slash>> ELSE <<>>)
                    \o JoinElems(CleanElems(SplitPath(path), <<>>, IsAbs(path)))
         IN  IF out = <<>> THEN <<".">> ELSE out

\* filepath.Join of two elements.
Join(dir, file) ==
    IF dir = <<>> /\ file = <<>> THEN <<>>
    ELSE IF dir = <<>> THEN Clean(file)
    ELSE Clean(dir \o <<Slash>> \o file)

\* filepath.Dir
Dir(path) == Clean(SubSeq(path, 1, LastSlash(path)))

\* filepath.Base
RECURSIVE StripTrailingSlashes(_)
StripTrailingSlashes(path) ==
    IF path # <<>> /\ path[Len(path)] = Slash
    THEN StripTrailingSlashes(SubSeq(path, 1, Len(path) - 1))
    ELSE path

Base(path) ==
    IF path = <<>> THEN <<".">>
    ELSE LET q == StripTrailingSlashes(path)
         IN  IF q = <<>> THEN <<Slash>>
             ELSE SubSeq(q, LastSlash(q) + 1, Len(q))

\* filepath.Ext: from the last "." of the last element on.
Ext(path) ==
    LET dots == {i \in (LastSlash(path) + 1)..Len(path) : path[i] = "."}
    IN  IF dots = {} THEN <<>> ELSE SubSeq(path, Max(dots), Len(path))

\* The working directory of the process, and the error of os.Getwd.
Cwd == <<"/","w">>
ErrGetwd == "getwd: no such file or directory"

\* filepath.Abs: an absolute path is cleaned; a relative one is joined to
\* the working directory, which os.Getwd may fail to give.
Abs(path, getwd) ==
    IF IsAbs(path) THEN [path |-> Clean(path), err |-> ErrNil]
    ELSE IF getwd THEN [path |-> <<>>, err |-> ErrGetwd]
    ELSE [path |-> Join(Cwd, path), err |-> ErrNil]

-----------------------------------------------------------------------------
(* Volume resolution: src/unnamed/part_002 (package unrarwrapper).         *)

DotRar == <<".","r","a","r">>
DotPart == <<".","p","a","r","t">>

\* The number of digits at the end of s.
RECURSIVE TrailingDigits(_)
TrailingDigits(s) ==
    IF s # <<>> /\ IsDigit(s[Len(s)])
    THEN 1 + TrailingDigits(SubSeq(s, 1, Len(s) - 1))
    ELSE 0

NoMatch == [ok |-> FALSE, bname |-> <<>>, num |-> <<>>, ext |-> <<>>]

\* rarMultiPartRx.FindStringSubmatch(name) for
\* (?mi)^(.+)\.part([0-9]+)(\.rar)$ on a name of one line: the groups are
\* the base name, the digits and the extension, letters matched in any case.
FindStringSubmatch(name) ==
    LET n == Len(name)
        stem == SubSeq(name, 1, n - 4)
        k == TrailingDigits(stem)
        m == Len(stem) - k
    IN  IF /\ n >= 4
           /\ ToLower(SubSeq(name, n - 3, n)) = DotRar
           /\ k >= 1
           /\ m >= 6
           /\ ToLower(SubSeq(stem, m - 4, m)) = DotPart
        THEN [ok |-> TRUE, bname |-> SubSeq(stem, 1, m - 5),
              num |-> SubSeq(stem, m + 1, Len(stem)), ext |-> SubSeq(name, n - 3, n)]
        ELSE NoMatch

ErrBadPattern == "syntax error in pattern"

\* A "[" that no "]" closes makes a pattern malformed.  The names of the
\* model hold no other pattern character, so that the "*" the caller writes
\* is the only one that matches anything.
BadPattern(pattern) ==
    \E i \in 1..Len(pattern) :
        /\ pattern[i] = "["
        /\ \A j \in (i + 1)..Len(pattern) : pattern[j] # "]"

\* path.Match of a pattern with one "*" against a name.
Match(pattern, name) ==
    LET star == Min({i \in 1..Len(pattern) : pattern[i] = "*"})
        pre == SubSeq(pattern, 1, star - 1)
        suf == SubSeq(pattern, star + 1, Len(pattern))
    IN  /\ Len(name) >= Len(pre) + Len(suf)
        /\ SubSeq(name, 1, Len(pre)) = pre
        /\ SubSeq(name, Len(name) - Len(suf) + 1, Len(name)) = suf

\* The names of a directory in the order os.ReadDir gives them.
RECURSIVE SortedNames(_)
SortedNames(S) ==
    IF S = {} THEN <<>>
    ELSE LET m == CHOOSE x \in S : \A y \in S : y = x \/ StringLess(x, y)
         IN  <<m>> \o SortedNames(S \ {m})

\* filepath.Glob(pattern) when the directory of the pattern holds the files
\* named entries: the malformed pattern is an error; else every name that
\* matches the last element, joined to the directory.
Glob(pattern, entries) ==
    IF BadPattern(pattern) THEN [files |-> <<>>, err |-> ErrBadPattern]
    ELSE LET dir == Dir(pattern)
             file == SubSeq(pattern, LastSlash(pattern) + 1, Len(pattern))
             names == SortedNames({e \in entries : Match(file, e)})
         IN  [files |-> [i \in 1..Len(names) |-> Join(dir, names[i])], err |-> ErrNil]

\* Variant of notRar: the path is made absolute before it is returned.
notRar_abs(path, getwd) ==
    [isMultiVol |-> FALSE, firstVolFullPath |-> Abs(path, getwd).path,
     multiVolFiles |-> <<path>>, err |-> ErrNil, calls |-> {"Getwd"}]

\* The return of line 27.
notRar(path, getwd) ==
    [isMultiVol |-> FALSE, firstVolFullPath |-> path,
     multiVolFiles |-> <<path>>, err |-> ErrNil, calls |-> {}]

\* Variant of sortVolumes: the slice is left in the order of the glob.
sortVolumes_none(x) == x

\* Lines 41-43.
sortVolumes(x) == SortFunc(x)

\* multiVolArchiveDetect(path) in a process whose os.Getwd fails when getwd
\* is TRUE, the directory of path holding the files named entries.  calls
\* is the set of file-system calls the function made.
multiVolArchiveDetect(path, entries, getwd) ==
    IF ToLower(Ext(path)) # DotRar THEN notRar(path, getwd)
    ELSE LET matches == FindStringSubmatch(Base(path))
             firstVol ==
                 IF matches.ok
                 THEN Join(Dir(path), matches.bname \o DotPart \o <<"1">> \o matches.ext)
                 ELSE path
             globPattern ==
                 Join(Dir(path), matches.bname \o DotPart \o <<"*">> \o matches.ext)
             multiVolFiles ==
                 IF matches.ok THEN Glob(globPattern, entries).files ELSE <<>>
             abs == Abs(firstVol, getwd)
         IN  [isMultiVol |-> matches.ok,
              firstVolFullPath |-> abs.path,
              multiVolFiles |-> sortVolumes(multiVolFiles),
              err |-> abs.err,
              calls |-> (IF matches.ok THEN {"Glob"} ELSE {})
                        \cup (IF IsAbs(firstVol) THEN {} ELSE {"Getwd"})]

-----------------------------------------------------------------------------
(* The paths handed to multiVolArchiveDetect and the directories they are  *)
(* in.                                                                     *)

MaxDirEntries == 3

\* The directory part of the path as written, and the directory it names.
VolDirs ==
    { [text |-> <<>>, abs |-> <<"/","w","/">>],
      [text |-> <<".","/">>, abs |-> <<"/","w","/">>],
      [text |-> <<"d","/">>, abs |-> <<"/","w","/","d","/">>],
      [text |-> <<"/","r","/">>, abs |-> <<"/","r","/">>] }

VolBases ==
    { <<"p","l","a","i","n",".","z","i","p">>,
      <<"n","o","e","x","t">>,
      <<"a",".","r","a","r">>,
      <<"a",".","R","A","R">>,
      <<"a",".","p","a","r","t","2",".","r","a","r">>,
      <<"a",".","P","A","R","T","2",".","R","A","R">>,
      <<"a",".","p","a","r","t","0","2",".","r","a","r">>,
      <<"a",".","p","a","r","t","x",".","r","a","r">>,
      <<".","p","a","r","t","1",".","r","a","r">>,
      <<"a","[",".","p","a","r","t","1",".","r","a","r">> }

DirNames ==
    { <<"a",".","p","a","r","t","1",".","r","a","r">>,
      <<"a",".","p","a","r","t","2",".","r","a","r">>,
      <<"a",".","p","a","r","t","1","0",".","r","a","r">>,
      <<"a",".","p","a","r","t","0","1",".","r","a","r">>,
      <<"a",".","p","a","r","t","x",".","r","a","r">>,
      <<"a",".","p","a","r","t","1",".","R","A","R">>,
      <<"a",".","P","A","R","T","1",".","R","A","R">>,
      <<"a",".","P","A","R","T","2",".","R","A","R">>,
      <<"b",".","p","a","r","t","1",".","r","a","r">>,
      <<"a",".","p","a","r","t","9","2","2","3","3","7","2","0","3","6","8","5","4","7","7","5","8","0","8",".","r","a","r">>,
      <<"a",".","p","a","r","t","1","0","0","0","0","0","0","0","0","0","0","0","0","0","0","0","0","0","0","0",".","r","a","r">> }

InitVol ==
    /\ ParserIdle
    /\ NatIdle
    /\ PathIdle
    /\ CloseIdle
    /\ ExtractIdle
    /\ volPc = "start"
    /\ volDir \in VolDirs
    /\ volBase \in VolBases
    /\ targetPath = volDir.text \o volBase
    /\ dirEntries \in {S \in SUBSET DirNames : Cardinality(S) <= MaxDirEntries}
    /\ getwdFails \in BOOLEAN
    /\ vol = NoVol

\* The call multiVolArchiveDetect(targetPath).
MultiVolArchiveDetect ==
    /\ volPc = "start"
    /\ vol' = multiVolArchiveDetect(targetPath, dirEntries, getwdFails)
    /\ volPc' = "done"
    /\ UNCHANGED <<volDir, volBase, targetPath, dirEntries, getwdFails>>
    /\ UNCHANGED <<parserVars, natVars, pathVars, closeVars, extractVars>>

NextVol == MultiVolArchiveDetect

SpecVol == InitVol /\ [][NextVol]_vars

-----------------------------------------------------------------------------
(* The cached path of the executable: src/unrar.go.  The lzmadec package   *)
(* has the same code for p7zPath (detect7zCached, Set7zPath).              *)
(*                                                                         *)
(* Every read and write of unrarPath is a step of its own.  A write that   *)
(* is not ordered with another access by mu is a data race: while another  *)
(* goroutine's store is in flight a read gives the old value, the new one  *)
(* or a torn one, and a store that completes leaves its value or a torn    *)
(* one.                                                                    *)

NumGoroutines == 2

Goroutines == 1..NumGoroutines

\* What exec.LookPath("unrar") finds, the paths callers hand to
\* SetUnRARPath, and a string that is neither of two racing values.
LookedUp == <<"/","u","s","r","/","b","i","n","/","u","n","r","a","r">>
SetPaths == {<<>>, <<"/","o","p","t","/","u","n","r","a","r">>}
Torn == <<"?">>

\* No store in flight; no command built yet.
NoStore == <<"-">>
NoCmdPath == <<"-">>

InFlight(g) == {storing[h] : h \in {k \in Goroutines \ {g} : storing[k] # NoStore}}

\* The values a read of unrarPath by g can give.
ReadPath(g) ==
    {unrarPath} \cup (IF InFlight(g) = {} THEN {} ELSE InFlight(g) \cup {Torn})

\* The values unrarPath can hold after g completes its store.
Stored(g) ==
    {storing[g]} \cup (IF InFlight(g) = {} THEN {} ELSE {Torn})

\* g completes its store into unrarPath and goes on at pc next.
Store(g, next) ==
    \E v \in Stored(g) :
        /\ unrarPath' = v
        /\ unguardedWrite' = (unguardedWrite \/ mu # g)
        /\ changedAfterSet' = (changedAfterSet \/ (unrarPath # <<>> /\ v # unrarPath))
        /\ storing' = [storing EXCEPT ![g] = NoStore]
        /\ gpc' = [gpc EXCEPT ![g] = next]

\* NewArchive(path) and NewEncryptedArchive(path, password): newArchive
\* calls detectUnRARCached.
NewArchive(g) ==
    /\ gpc[g] = "idle"
    /\ gpc' = [gpc EXCEPT ![g] = "lock"]
    /\ UNCHANGED <<unrarPath, mu, storing, cmdPath, haveArchive,
                   unguardedWrite, changedAfterSet>>
    /\ UNCHANGED <<parserVars, natVars, volVars, closeVars, extractVars>>

\* detectUnRARCached: mu.Lock()
Lock(g) ==
    /\ gpc[g] = "lock"
    /\ mu = 0
    /\ mu' = g
    /\ gpc' = [gpc EXCEPT ![g] = "check"]
    /\ UNCHANGED <<unrarPath, storing, cmdPath, haveArchive,
                   unguardedWrite, changedAfterSet>>
    /\ UNCHANGED <<parserVars, natVars, volVars, closeVars, extractVars>>

\* detectUnRARCached: if unrarPath == ""
CheckEmpty(g) ==
    /\ gpc[g] = "check"
    /\ \E v \in ReadPath(g) :
          gpc' = [gpc EXCEPT ![g] = IF v = <<>> THEN "look" ELSE "recheck"]
    /\ UNCHANGED <<unrarPath, mu, storing, cmdPath, haveArchive,
                   unguardedWrite, changedAfterSet>>
    /\ UNCHANGED <<parserVars, natVars, volVars, closeVars, extractVars>>

\* detectUnRARCached: exec.LookPath("unrar") finds the executable or not.
LookPath(g) ==
    /\ gpc[g] = "look"
    /\ \/ /\ storing' = [storing EXCEPT ![g] = LookedUp]
          /\ gpc' = [gpc EXCEPT ![g] = "store"]
       \/ /\ gpc' = [gpc EXCEPT ![g] = "recheck"]
          /\ UNCHANGED storing
    /\ UNCHANGED <<unrarPath, mu, cmdPath, haveArchive,
                   unguardedWrite, changedAfterSet>>
    /\ UNCHANGED <<parserVars, natVars, volVars, closeVars, extractVars>>

\* detectUnRARCached: unrarPath = p
StoreLookedUp(g) ==
    /\ gpc[g] = "store"
    /\ Store(g, "recheck")
    /\ UNCHANGED <<mu, cmdPath, haveArchive>>
    /\ UNCHANGED <<parserVars, natVars, volVars, closeVars, extractVars>>

\* detectUnRARCached: if unrarPath != "", the return and the deferred
\* mu.Unlock(); newArchive goes on when the error is nil.
Recheck(g) ==
    /\ gpc[g] = "recheck"
    /\ \E v \in ReadPath(g) :
          gpc' = [gpc EXCEPT ![g] = IF v # <<>> THEN "exec" ELSE "idle"]
    /\ mu' = 0
    /\ UNCHANGED <<unrarPath, storing, cmdPath, haveArchive,
                   unguardedWrite, changedAfterSet>>
    /\ UNCHANGED <<parserVars, natVars, volVars, closeVars, extractVars>>

\* newArchive: exec.Command(unrarPath, params...) and the rest of the call,
\* which gives an Archive or an error.
Exec(g) ==
    /\ gpc[g] = "exec"
    /\ \E v \in ReadPath(g) : cmdPath' = [cmdPath EXCEPT ![g] = v]
    /\ haveArchive' \in {haveArchive, TRUE}
    /\ gpc' = [gpc EXCEPT ![g] = "idle"]
    /\ UNCHANGED <<unrarPath, mu, storing, unguardedWrite, changedAfterSet>>
    /\ UNCHANGED <<parserVars, natVars, volVars, closeVars, extractVars>>

\* SetUnRARPath(path) is called.
SetUnRARPath(g, path) ==
    /\ gpc[g] = "idle"
    /\ storing' = [storing EXCEPT ![g] = path]
    /\ gpc' = [gpc EXCEPT ![g] = "set"]
    /\ UNCHANGED <<unrarPath, mu, cmdPath, haveArchive,
                   unguardedWrite, changedAfterSet>>
    /\ UNCHANGED <<parserVars, natVars, volVars, closeVars, extractVars>>

\* SetUnRARPath: unrarPath = path
StoreSet(g) ==
    /\ gpc[g] = "set"
    /\ Store(g, "idle")
    /\ UNCHANGED <<mu, cmdPath, haveArchive>>
    /\ UNCHANGED <<parserVars, natVars, volVars, closeVars, extractVars>>

\* GetFileReader on an Archive: exec.Command(unrarPath, params...)
GetFileReader(g) ==
    /\ gpc[g] = "idle"
    /\ haveArchive
    /\ \E v \in ReadPath(g) : cmdPath' = [cmdPath EXCEPT ![g] = v]
    /\ UNCHANGED <<unrarPath, mu, gpc, storing, haveArchive,
                   unguardedWrite, changedAfterSet>>
    /\ UNCHANGED <<parserVars, natVars, volVars, closeVars, extractVars>>

InitPath ==
    /\ ParserIdle
    /\ NatIdle
    /\ VolIdle
    /\ CloseIdle
    /\ ExtractIdle
    /\ unrarPath = <<>>
    /\ mu = 0
    /\ gpc = [g \in Goroutines |-> "idle"]
    /\ storing = [g \in Goroutines |-> NoStore]
    /\ cmdPath = [g \in Goroutines |-> NoCmdPath]
    /\ haveArchive = FALSE
    /\ unguardedWrite = FALSE
    /\ changedAfterSet = FALSE

NextPath ==
    \E g \in Goroutines :
        \/ NewArchive(g)
        \/ Lock(g)
        \/ CheckEmpty(g)
        \/ LookPath(g)
        \/ StoreLookedUp(g)
        \/ Recheck(g)
        \/ Exec(g)
        \/ \E path \in SetPaths : SetUnRARPath(g, path)
        \/ StoreSet(g)
        \/ GetFileReader(g)

SpecPath == InitPath /\ [][NextPath]_vars

-----------------------------------------------------------------------------
(* A reader returned by GetFileReader: src/unrar.go, readCloser.  The      *)
(* child process writes its output to the stdout pipe and blocks when the  *)
(* pipe is full; a write to a pipe whose read end is closed ends it.       *)

MaxData == 5
PipeCap == 2

\* Variant of closeSteps: the process is waited for before the pipe is closed.
closeSteps_waitFirst == <<"wait", "closePipe">>

\* The statements of readCloser.Close, in order: rc.rc.Close(), then
\* rc.cmd.Wait().
closeSteps == <<"closePipe", "wait">>

Returned == Len(closeSteps) + 1

InClose == callerPc \in 1..Len(closeSteps)

\* The child writes a chunk into the pipe.
ChildWrite ==
    /\ childPc = "running"
    /\ toWrite > 0
    /\ readOpen
    /\ pipeBuf < PipeCap
    /\ pipeBuf' = pipeBuf + 1
    /\ toWrite' = toWrite - 1
    /\ UNCHANGED <<total, readOpen, childPc, callerPc, nRead>>
    /\ UNCHANGED <<parserVars, natVars, volVars, pathVars, extractVars>>

\* The child writes to the pipe after its read end was closed, and exits.
ChildBrokenPipe ==
    /\ childPc = "running"
    /\ toWrite > 0
    /\ ~readOpen
    /\ childPc' = "exited"
    /\ UNCHANGED <<total, toWrite, pipeBuf, readOpen, callerPc, nRead>>
    /\ UNCHANGED <<parserVars, natVars, volVars, pathVars, extractVars>>

\* The child has written all its output, and exits.
ChildExit ==
    /\ childPc = "running"
    /\ toWrite = 0
    /\ childPc' = "exited"
    /\ UNCHANGED <<total, toWrite, pipeBuf, readOpen, callerPc, nRead>>
    /\ UNCHANGED <<parserVars, natVars, volVars, pathVars, extractVars>>

\* readCloser.Read gives the caller a chunk.
Read ==
    /\ callerPc = 0
    /\ pipeBuf > 0
    /\ pipeBuf' = pipeBuf - 1
    /\ nRead' = nRead + 1
    /\ UNCHANGED <<total, toWrite, readOpen, childPc, callerPc>>
    /\ UNCHANGED <<parserVars, natVars, volVars, pathVars, extractVars>>

\* The caller calls readCloser.Close.
CallClose ==
    /\ callerPc = 0
    /\ callerPc' = 1
    /\ UNCHANGED <<total, toWrite, pipeBuf, readOpen, childPc, nRead>>
    /\ UNCHANGED <<parserVars, natVars, volVars, pathVars, extractVars>>

\* Close: rc.rc.Close() closes the read end; what the pipe held is dropped.
ClosePipe ==
    /\ InClose
    /\ closeSteps[callerPc] = "closePipe"
    /\ readOpen' = FALSE
    /\ pipeBuf' = 0
    /\ callerPc' = callerPc + 1
    /\ UNCHANGED <<total, toWrite, childPc, nRead>>
    /\ UNCHANGED <<parserVars, natVars, volVars, pathVars, extractVars>>

\* Close: rc.cmd.Wait() returns when the child has exited.
Wait ==
    /\ InClose
    /\ closeSteps[callerPc] = "wait"
    /\ childPc = "exited"
    /\ callerPc' = callerPc + 1
    /\ UNCHANGED <<total, toWrite, pipeBuf, readOpen, childPc, nRead>>
    /\ UNCHANGED <<parserVars, natVars, volVars, pathVars, extractVars>>

InitClose ==
    /\ ParserIdle
    /\ NatIdle
    /\ VolIdle
    /\ PathIdle
    /\ ExtractIdle
    /\ total \in 0..MaxData
    /\ toWrite = total
    /\ pipeBuf = 0
    /\ readOpen = TRUE
    /\ childPc = "running"
    /\ callerPc = 0
    /\ nRead = 0

NextClose ==
    \/ ChildWrite
    \/ ChildBrokenPipe
    \/ ChildExit
    \/ Read
    \/ CallClose
    \/ ClosePipe
    \/ Wait

SpecClose == InitClose /\ [][NextClose]_vars

\* The operating system runs the child, and the goroutine that called Close
\* runs on until it returns; the caller need not read, nor call Close.
SpecCloseFair ==
    /\ SpecClose
    /\ WF_vars(ChildWrite)
    /\ WF_vars(ChildBrokenPipe)
    /\ WF_vars(ChildExit)
    /\ WF_vars(ClosePipe)
    /\ WF_vars(Wait)

-----------------------------------------------------------------------------
(* Extraction: src/unrar.go, GetFileReader and ExtractToWriter.  The       *)
(* lzmadec package has the same code, comparing e.Path.                    *)

MaxEntries == 2

ErrNotInArchive == "file not in the archive"
ErrPipe == "StdoutPipe failed"
ErrStart == "Start failed"
ErrCopy == "copy failed"
ErrWait == "exit status 1"

\* GetFileReader(name) on an Archive whose entries have the names entries;
\* env holds the errors of cmd.StdoutPipe and cmd.Start.  reader tells that a
\* readCloser is returned, spawned counts the processes started.
getFileReader(entries, name, env) ==
    IF ~\E i \in 1..Len(entries) : entries[i] = name
    THEN [reader |-> FALSE, err |-> ErrNotInArchive, spawned |-> 0]
    ELSE IF env.pipeErr # ErrNil
    THEN [reader |-> FALSE, err |-> env.pipeErr, spawned |-> 0]
    ELSE IF env.startErr # ErrNil
    THEN [reader |-> FALSE, err |-> env.startErr, spawned |-> 0]
    ELSE [reader |-> TRUE, err |-> ErrNil, spawned |-> 1]

\* Variant of extractToWriter: the copy error is returned before Close.
extractToWriter_returnBeforeClose(entries, name, env) ==
    LET r == getFileReader(entries, name, env)
    IN  IF r.err # ErrNil
        THEN [err |-> r.err, spawned |-> r.spawned, closes |-> 0]
        ELSE IF env.copyErr # ErrNil
        THEN [err |-> env.copyErr, spawned |-> r.spawned, closes |-> 0]
        ELSE [err |-> env.waitErr, spawned |-> r.spawned, closes |-> 1]

\* ExtractToWriter(dst, name): err is the error of io.Copy, err2 that of
\* r.Close(), which is the error of cmd.Wait; closes counts the calls of
\* r.Close().
extractToWriter(entries, name, env) ==
    LET r == getFileReader(entries, name, env)
        err2 == env.waitErr
    IN  IF r.err # ErrNil
        THEN [err |-> r.err, spawned |-> r.spawned, closes |-> 0]
        ELSE [err |-> IF env.copyErr # ErrNil THEN env.copyErr ELSE err2,
              spawned |-> r.spawned, closes |-> 1]

EntryNames == {<<>>, <<"a">>, <<"b">>}

InitExtract ==
    /\ ParserIdle
    /\ NatIdle
    /\ VolIdle
    /\ PathIdle
    /\ CloseIdle
    /\ xPc = "start"
    /\ xEntries \in SeqsUpTo(EntryNames, MaxEntries)
    /\ xName \in EntryNames \cup {<<"c">>}
    /\ xEnv \in [pipeErr : {ErrNil, ErrPipe}, startErr : {ErrNil, ErrStart},
                 copyErr : {ErrNil, ErrCopy}, waitErr : {ErrNil, ErrWait}]
    /\ xOut = NoOut

\* The call a.ExtractToWriter(dst, xName).
ExtractToWriter ==
    /\ xPc = "start"
    /\ xOut' = extractToWriter(xEntries, xName, xEnv)
    /\ xPc' = "done"
    /\ UNCHANGED <<xEntries, xName, xEnv>>
    /\ UNCHANGED <<parserVars, natVars, volVars, pathVars, closeVars>>

NextExtract == ExtractToWriter

SpecExtract == InitExtract /\ [][NextExtract]_vars

-----------------------------------------------------------------------------
(* Properties.                                                             *)

Done == pc = "done"

IsBlankLine(l) == \A i \in 1..Len(l) : l[i] \in WhiteSpace

\* The fields of block b whose key, in lower case and trimmed, is name.
FieldsOf(b, name) == {i \in 1..Len(b) : ToLower(TrimSpace(b[i].key)) = name}
HasField(b, name) == FieldsOf(b, name) # {}
LastValue(b, name) == b[Max(FieldsOf(b, name))].val

IsDecimal(v) == v # <<>> /\ \A i \in 1..Len(v) : IsDigit(v[i])
IsNumber(v) ==
    \/ IsDecimal(v)
    \/ Len(v) >= 2 /\ v[1] \in {"+", "-"} /\ IsDecimal(Tail(v))

\* Two of the keys whose value is stored as it is.
Key_attributes == <<"a","t","t","r","i","b","u","t","e","s">>
Key_folder == <<"f","o","l","d","e","r">>

\* The keys whose value the generic parser converts to a number.
NumericKeys ==
    {Key_size, Key_packed_size, Key_block, Key_volume_index, Key_offset,
     Key_physical_size, Key_cluster_size}

\* A field of a numeric key whose value is neither blank nor a number.
IsBadNumber(f) ==
    /\ ToLower(TrimSpace(f.key)) \in NumericKeys
    /\ f.val # <<>>
    /\ ~IsNumber(f.val)

HasBadNumber(b) == \E i \in 1..Len(b) : IsBadNumber(b[i])

\* A block of key/value lines with a value on every line and a number in
\* every numeric field.
WellFormedBlock(b) ==
    \A i \in 1..Len(b) : b[i].val # <<>> /\ ~IsBadNumber(b[i])

\* The position of the start sentinel of a generic listing, 0 without one:
\* the first line that is the dash separator or the second "--" line.
SentinelLines7z(d) ==
    {i \in 1..Len(d) :
        \/ d[i] = NormalSep
        \/ d[i] = RpmSep /\ \E j \in 1..(i - 1) : d[j] = RpmSep}
Sentinel7z(d) == IF SentinelLines7z(d) = {} THEN 0 ELSE Min(SentinelLines7z(d))

\* The position of the details line of a native-rar listing, 0 without one.
SentinelLinesRar(d) == {i \in 1..Len(d) : detailsReMatch(d[i])}
SentinelRar(d) == IF SentinelLinesRar(d) = {} THEN 0 ELSE Min(SentinelLinesRar(d))

\* Only blank lines, or nothing, after line k.
OnlyBlankAfter(d, k) == \A i \in (k + 1)..Len(d) : IsBlankLine(d[i])

Structured7z == dialect = "7z" /\ listing.kind \in {"blocks", "fields"}

-----------------------------------------------------------------------------
\* C1: every Entry of a successful parse has a non-empty identity field
\* (Path, Name), and the generic parser fails for a block whose Path value
\* is blank or that has no Path line.
C1_IdentityNonEmpty ==
    Done =>
        /\ \A i \in 1..Len(res) :
              IF dialect = "7z" THEN res[i].Path # <<>> ELSE res[i].Name # <<>>
        /\ ( /\ Structured7z
             /\ \E k \in 1..Len(listing.blocks) :
                   \/ ~HasField(listing.blocks[k], Key_path)
                   \/ LastValue(listing.blocks[k], Key_path) = <<>> )
           => err # ErrNil

-----------------------------------------------------------------------------
\* C2: the native-rar parser drops a block whose Name value is empty without
\* failing, and returns the valid blocks of the listing, in order.
RarBlankName(b) == HasField(b, Key_name) /\ LastValue(b, Key_name) = <<>>
RarValidBlock(b) ==
    /\ HasField(b, Key_name)
    /\ LastValue(b, Key_name) # <<>>
    /\ ~HasBadNumber(b)
    /\ \A i \in 1..Len(b) :
          ToLower(TrimSpace(b[i].key)) = Key_size => b[i].val # <<>>
RarNames(bs) == [i \in 1..Len(bs) |-> LastValue(bs[i], Key_name)]

C2_BlankNameDropped ==
    ( /\ Done
      /\ dialect = "rar"
      /\ listing.kind = "blocks"
      /\ \A k \in 1..Len(listing.blocks) :
            RarBlankName(listing.blocks[k]) \/ RarValidBlock(listing.blocks[k])
      /\ \E k \in 1..Len(listing.blocks) : RarBlankName(listing.blocks[k]) )
    => /\ err = ErrNil
       /\ [i \in 1..Len(res) |-> res[i].Name]
             = RarNames(SelectSeq(listing.blocks, RarValidBlock))

-----------------------------------------------------------------------------
\* C3: a well-formed generic listing of n >= 1 blocks parses without error
\* into exactly n entries, the i-th entry built from the i-th block.
ValueOrNone(b, name) == IF HasField(b, name) THEN LastValue(b, name) ELSE <<>>

WellFormedListing ==
    /\ dialect = "7z"
    /\ listing.kind = "blocks"
    /\ Len(listing.blocks) >= 1
    /\ \A k \in 1..Len(listing.blocks) : WellFormedBlock(listing.blocks[k])

C3_OneEntryPerBlock ==
    (Done /\ WellFormedListing) =>
        /\ err = ErrNil
        /\ Len(res) = Len(listing.blocks)
        /\ \A i \in 1..Len(res) :
              /\ res[i].Path = ValueOrNone(listing.blocks[i], Key_path)
              /\ res[i].Folder = ValueOrNone(listing.blocks[i], Key_folder)

C3_Witness ==
    /\ Done
    /\ WellFormedListing
    /\ Len(listing.blocks) = 3
    /\ Len(res) = 3
    /\ res[1].Path = <<"a">>
    /\ res[2].Path = <<"b">>
    /\ res[3].Path = <<>>

-----------------------------------------------------------------------------
\* C4: in the generic parser the PackedSize of an entry is -1 exactly when
\* its block has no Packed Size line.
C4_UnknownWhenAbsent ==
    (Done /\ dialect = "7z" /\ listing.kind = "fields" /\ err = ErrNil) =>
        /\ Len(res) = 1
        /\ (res[1].PackedSize = 0 - 1)
              <=> ~HasField(listing.blocks[1], Key_packed_size)

-----------------------------------------------------------------------------
\* C5: a blank value is processed exactly as the value "0", for every key:
\* the listing parses as the listing with "0" written in the blank values
\* does, a blank numeric field is 0 without an error, a blank string field
\* is "0".
ZeroFilledField(f) == IF f.val = <<>> THEN [f EXCEPT !.val = <<"0">>] ELSE f
ZeroFilledBlock(b) == [i \in 1..Len(b) |-> ZeroFilledField(b[i])]
ZeroFilled(l) ==
    [l EXCEPT !.blocks = [k \in 1..Len(l.blocks) |-> ZeroFilledBlock(l.blocks[k])]]

\* The Entry field of the numeric and of some string keys.
NumberFieldOf ==
    << [key |-> Key_size, field |-> "Size"],
       [key |-> Key_packed_size, field |-> "PackedSize"],
       [key |-> Key_block, field |-> "Block"],
       [key |-> Key_volume_index, field |-> "VolumeIndex"],
       [key |-> Key_offset, field |-> "Offset"] >>
TextFieldOf ==
    << [key |-> Key_path, field |-> "Path"],
       [key |-> Key_attributes, field |-> "Attributes"],
       [key |-> <<"c","o","m","m","e","n","t">>, field |-> "Comment"] >>

\* The last line of the block is a blank field of the key, and no other
\* line of the block fails.
EndsWithBlank(b, key) ==
    /\ ToLower(b[Len(b)].key) = key
    /\ b[Len(b)].val = <<>>
    /\ ~HasBadNumber(b)

-----------------------------------------------------------------------------
\* C6: a non-numeric value in a numeric field of any block makes the generic
\* parser return the conversion error and a nil entry list, also when blocks
\* before it parsed; no failed parse returns entries.
C6_ConversionErrorAborts ==
    Done =>
        /\ err # ErrNil => res = <<>>
        /\ ( /\ Structured7z
             /\ \E k \in 1..Len(listing.blocks) : HasBadNumber(listing.blocks[k]) )
           => (err = ErrSyntax /\ res = <<>>)

C6_Witness ==
    /\ Done
    /\ dialect = "7z"
    /\ listing.kind = "blocks"
    /\ Len(listing.blocks) = 2
    /\ WellFormedBlock(listing.blocks[1])
    /\ HasBadNumber(listing.blocks[2])
    /\ err = ErrSyntax
    /\ res = <<>>

-----------------------------------------------------------------------------
\* C7: whatever the order of the lines of a block, a Physical Size value
\* back-fills a PackedSize that is not positive and a Cluster Size value
\* back-fills a Size that is not positive.
NotPositiveValues == {<<>>, <<"0">>, <<"-", "1">>}
NotPositive(b, name) ==
    \A i \in FieldsOf(b, name) : b[i].val \in NotPositiveValues

C7_BackFillAnyOrder ==
    (Done /\ dialect = "7z" /\ listing.kind = "fields" /\ err = ErrNil) =>
        LET b == listing.blocks[1]
        IN  /\ ( /\ HasField(b, Key_physical_size)
                 /\ LastValue(b, Key_physical_size) = <<"5">>
                 /\ NotPositive(b, Key_packed_size) )
               => res[1].PackedSize = 5
            /\ ( /\ HasField(b, Key_cluster_size)
                 /\ LastValue(b, Key_cluster_size) = <<"4">>
                 /\ NotPositive(b, Key_size) )
               => res[1].Size = 4

-----------------------------------------------------------------------------
\* C8: an entry without an Attributes line gets Attributes "D" for Folder
\* "+" and "A" for Folder "-"; an Attributes value is kept whatever the
\* Folder value.
C8_AttributesFromFolder ==
    (Done /\ Structured7z /\ err = ErrNil) =>
        /\ Len(res) = Len(listing.blocks)
        /\ \A i \in 1..Len(res) :
              LET b == listing.blocks[i]
              IN  /\ ( /\ ~HasField(b, Key_attributes)
                       /\ HasField(b, Key_folder)
                       /\ LastValue(b, Key_folder) = <<"+">> )
                     => res[i].Attributes = <<"D">>
                  /\ ( /\ ~HasField(b, Key_attributes)
                       /\ HasField(b, Key_folder)
                       /\ LastValue(b, Key_folder) = <<"-">> )
                     => res[i].Attributes = <<"A">>
                  /\ ( /\ HasField(b, Key_attributes)
                       /\ LastValue(b, Key_attributes) # <<>> )
                     => res[i].Attributes = LastValue(b, Key_attributes)

C8_Witness ==
    /\ Done
    /\ dialect = "7z"
    /\ listing.kind = "blocks"
    /\ Len(listing.blocks) = 1
    /\ ~HasField(listing.blocks[1], Key_attributes)
    /\ HasField(listing.blocks[1], Key_folder)
    /\ LastValue(listing.blocks[1], Key_folder) = <<"+">>
    /\ err = ErrNil
    /\ res[1].Attributes = <<"D">>

-----------------------------------------------------------------------------
\* C9: the start sentinel followed only by blank lines, or by the end of the
\* stream, makes the generic parser return zero entries and no error.
NoBlockAfterSentinel7z ==
    /\ dialect = "7z"
    /\ Sentinel7z(input) # 0
    /\ OnlyBlankAfter(input, Sentinel7z(input))

-----------------------------------------------------------------------------
\* The native-rar parser discards the line after the details line.
NoBlockAfterSentinelRar ==
    /\ dialect = "rar"
    /\ SentinelRar(input) # 0
    /\ OnlyBlankAfter(input, SentinelRar(input) + 1)

NoSentinel ==
    IF dialect = "7z" THEN Sentinel7z(input) = 0 ELSE SentinelRar(input) = 0

-----------------------------------------------------------------------------
\* C11: the generic parser scans the blocks that follow the earliest line
\* that is exactly "----------" or the second line that is exactly "--";
\* without such a line it returns ErrNoEntries and no entries.
\* The entries of the blocks of d after line k, parsed one by one.
BlocksAfter(d, k) == parseLoop(d, k, <<>>)

C11_ScanStartsAfterSentinel ==
    (Done /\ dialect = "7z") =>
        IF Sentinel7z(input) = 0
        THEN err = ErrNoEntries /\ res = <<>>
        ELSE /\ err # ErrNoEntries
             /\ res = BlocksAfter(input, Sentinel7z(input)).res
             /\ err = BlocksAfter(input, Sentinel7z(input)).err
             /\ ( /\ Sentinel7z(input) < Len(input)
                  /\ input[Sentinel7z(input) + 1] = <<"P","a","t","h"," ","="," ","a">>
                  /\ OnlyBlankAfter(input, Sentinel7z(input) + 1) )
                => (Len(res) = 1 /\ res[1].Path = <<"a">>)

C11_Witness ==
    /\ Done
    /\ dialect = "7z"
    /\ input = <<RpmSep, <<"P","a","t","h"," ","="," ","a">>, RpmSep, <<"P","a","t","h"," ","="," ","a">>>>
    /\ err = ErrNil
    /\ Len(res) = 1

-----------------------------------------------------------------------------
(* naturalCompare.                                                         *)

Compared == natPc = "compared"

\* The decimal digits x denote a smaller number than the decimal digits y
\* (neither has leading zeros).
RECURSIVE DigitsLessFrom(_, _, _)
DigitsLessFrom(x, y, i) ==
    IF i > Len(x) THEN FALSE
    ELSE IF x[i] = y[i] THEN DigitsLessFrom(x, y, i + 1)
    ELSE DigitVal(x[i]) < DigitVal(y[i])

NumLess(x, y) ==
    \/ Len(x) < Len(y)
    \/ Len(x) = Len(y) /\ DigitsLessFrom(x, y, 1)

IsDigitRun(s) == s # <<>> /\ \A i \in 1..Len(s) : IsDigit(s[i])

NoLeadingZero(s) == Len(s) = 1 \/ s[1] # "0"

\* The value of the digit run is at most the largest int, 2^63 - 1.
FitsInt(s) == ~NumLess(MaxInt, s)

\* C12: naturalCompare is a total ordering with the three-way sign:
\* naturalCompare(a, b) = -naturalCompare(b, a) for all a and b, it is 0
\* exactly when a = b, and "less than" is transitive.
C12_TotalOrder ==
    Compared =>
        /\ cmpOut.ab = -cmpOut.ba
        /\ (cmpOut.ab = 0) <=> (cmpA = cmpB)
        /\ \A c \in NatStrings :
              (cmpOut.ab < 0 /\ naturalCompare(cmpB, c) < 0)
                  => naturalCompare(cmpA, c) < 0

\* The chunks of a and b are the same but for position k, where both have a
\* digit run without leading zeros.
DifferInOneRun(a, b, k) ==
    /\ Len(chunkify(a)) = Len(chunkify(b))
    /\ k \in 1..Len(chunkify(a))
    /\ \A i \in 1..Len(chunkify(a)) : i # k => chunkify(a)[i] = chunkify(b)[i]
    /\ chunkify(a)[k] # chunkify(b)[k]
    /\ IsDigitRun(chunkify(a)[k]) /\ NoLeadingZero(chunkify(a)[k])
    /\ IsDigitRun(chunkify(b)[k]) /\ NoLeadingZero(chunkify(b)[k])

PartNumberOf(name) == CHOOSE n \in PartNumbers : PartName(n) = name

Ascending(x) ==
    \A i, j \in 1..Len(x) :
        i < j => NumLess(PartNumberOf(x[i]), PartNumberOf(x[j]))

\* C13: two strings that differ in one digit run (without leading zeros) at
\* the same chunk position are ordered by the value of that run, and sorting
\* names basename.part<N>.rar with distinct N yields ascending N.
C13_NumericOrder ==
    /\ Compared =>
          \A k \in 1..Len(chunkify(cmpA)) :
              DifferInOneRun(cmpA, cmpB, k) =>
                  /\ cmpOut.ab = (IF NumLess(chunkify(cmpA)[k], chunkify(cmpB)[k])
                                  THEN -1 ELSE 1)
                  /\ cmpOut.ba = -cmpOut.ab
    /\ natPc = "sorted" => Ascending(sorted)

\* C13, amended: the same when the runs (the part numbers) are at most the
\* largest int, so that strconv.Atoi converts them.
C13_NumericOrderOfInts ==
    /\ Compared =>
          \A k \in 1..Len(chunkify(cmpA)) :
              ( /\ DifferInOneRun(cmpA, cmpB, k)
                /\ FitsInt(chunkify(cmpA)[k])
                /\ FitsInt(chunkify(cmpB)[k]) ) =>
                  /\ cmpOut.ab = (IF NumLess(chunkify(cmpA)[k], chunkify(cmpB)[k])
                                  THEN -1 ELSE 1)
                  /\ cmpOut.ba = -cmpOut.ab
    /\ ( /\ natPc = "sorted"
         /\ \A i \in 1..Len(files) : FitsInt(PartNumberOf(files[i])) )
       => /\ Ascending(sorted)
          /\ Len(sorted) = Len(files)
          /\ \A i \in 1..Len(files) : \E j \in 1..Len(sorted) : sorted[j] = files[i]

C13_Witness ==
    /\ natPc = "sorted"
    /\ files = TestNames
    /\ sorted = <<PartName(<<"1">>), PartName(<<"2">>), PartName(<<"3">>),
                  PartName(<<"2","0">>), PartName(<<"3","0">>)>>

\* The chunks of a are the first chunks of b, and b has more of them.
EndsFirst(a, b) ==
    /\ Len(chunkify(a)) >= 1
    /\ Len(chunkify(a)) < Len(chunkify(b))
    /\ \A i \in 1..Len(chunkify(a)) : chunkify(a)[i] = chunkify(b)[i]

\* C14: when the chunks are equal up to the last chunk of one operand and
\* the other operand has more chunks, the operand that ends sorts after the
\* other: naturalCompare(shorter, longer) = 1, naturalCompare(longer,
\* shorter) = -1.
C14_EndingOperandSortsAfter ==
    (Compared /\ EndsFirst(cmpA, cmpB)) => (cmpOut.ab = 1 /\ cmpOut.ba = -1)

\* C14, amended: the operand that ends sorts before the other.
C14_EndingOperandSortsBefore ==
    (Compared /\ EndsFirst(cmpA, cmpB)) => (cmpOut.ab = -1 /\ cmpOut.ba = 1)

C14_Witness ==
    /\ Compared
    /\ cmpA = <<"a","1">>
    /\ cmpB = <<"a","1","a">>
    /\ cmpOut = [ab |-> -1, ba |-> 1]

-----------------------------------------------------------------------------
(* multiVolArchiveDetect.                                                  *)

VolDone == volPc = "done"

Absolute(path) == path # <<>> /\ path[1] = "/"

\* The name ends in .rar, in any letter case.
EndsWithRar(name) ==
    Len(name) >= 4 /\ ToLower(SubSeq(name, Len(name) - 3, Len(name))) = <<".","r","a","r">>

\* The ways to read name as <basename>.part<N>.rar (letters in any case):
\* the base name is name[1..i] and N is name[i+6..j].
Splits(name) ==
    { s \in (1..Len(name)) \X (1..Len(name)) :
        /\ s[1] + 6 <= s[2]
        /\ s[2] + 4 = Len(name)
        /\ ToLower(SubSeq(name, s[1] + 1, s[1] + 5)) = <<".","p","a","r","t">>
        /\ IsDigitRun(SubSeq(name, s[1] + 6, s[2]))
        /\ EndsWithRar(name) }

IsPartName(name) == Splits(name) # {}

BnameOf(name) == SubSeq(name, 1, (CHOOSE s \in Splits(name) : TRUE)[1])

ExtOf(name) == SubSeq(name, Len(name) - 3, Len(name))

\* C15: the first-volume path multiVolArchiveDetect returns is absolute,
\* whatever the input path.
C15_FirstVolumeAbsolute ==
    VolDone => Absolute(vol.firstVolFullPath)

\* C16: for a .rar path that is not <basename>.part<N>.rar the result is
\* multi-volume = false and the volume list [input path].
C16_PlainRarIsOwnVolume ==
    (VolDone /\ EndsWithRar(volBase) /\ ~IsPartName(volBase)) =>
        /\ ~vol.isMultiVol
        /\ vol.multiVolFiles = <<targetPath>>

\* C17: for a path whose extension is not .rar in any letter case the result
\* is multi-volume = false, the input path, the list [input path] and a nil
\* error, and no call to the file system is made.
C17_NotRarIsOwnVolume ==
    (VolDone /\ ~EndsWithRar(volBase)) =>
        /\ ~vol.isMultiVol
        /\ vol.firstVolFullPath = targetPath
        /\ vol.multiVolFiles = <<targetPath>>
        /\ vol.err = ErrNil
        /\ vol.calls = {}

C17_Witness ==
    /\ VolDone
    /\ targetPath = <<"p","l","a","i","n",".","z","i","p">>
    /\ getwdFails
    /\ ~vol.isMultiVol
    /\ vol.multiVolFiles = <<<<"p","l","a","i","n",".","z","i","p">>>>
    /\ vol.err = ErrNil

\* The entries of the directory that match <basename>.part*<ext>.
Siblings == {e \in dirEntries :
                /\ Len(e) >= Len(BnameOf(volBase)) + 9
                /\ SubSeq(e, 1, Len(BnameOf(volBase)) + 5) = BnameOf(volBase) \o <<".","p","a","r","t">>
                /\ ExtOf(e) = ExtOf(volBase)}

FileName(path) == SubSeq(path, LastSlash(path) + 1, Len(path))

\* What stands for * in the name of a listed volume.
PartOf(path) ==
    SubSeq(FileName(path), Len(BnameOf(volBase)) + 6, Len(FileName(path)) - 4)

Numbered(path) == IsDigitRun(PartOf(path))

\* The volume list holds the siblings, each once.
ListsSiblings ==
    /\ {FileName(vol.multiVolFiles[i]) : i \in 1..Len(vol.multiVolFiles)} = Siblings
    /\ Len(vol.multiVolFiles) = Cardinality(Siblings)

\* No volume comes before one with a smaller part number.
SmallerNumberFirst ==
    \A i, j \in 1..Len(vol.multiVolFiles) :
        ( /\ i < j
          /\ Numbered(vol.multiVolFiles[i])
          /\ Numbered(vol.multiVolFiles[j]) )
        => ~NumLess(StripZeros(PartOf(vol.multiVolFiles[j])),
                    StripZeros(PartOf(vol.multiVolFiles[i])))

FirstVolume == volDir.abs \o BnameOf(volBase) \o <<".","p","a","r","t","1">> \o ExtOf(volBase)

\* C18: for a name <basename>.part<N>.rar the result is multi-volume = true,
\* the absolute path of <basename>.part1.rar in the same directory, and the
\* directory entries matching <basename>.part*.rar with the smaller part
\* number first; a glob failure yields an empty list and no error.
C18_VolumesOfSet ==
    (VolDone /\ IsPartName(volBase)) =>
        /\ vol.isMultiVol
        /\ vol.firstVolFullPath = FirstVolume
        /\ ListsSiblings
        /\ SmallerNumberFirst
        /\ BadPattern(volBase) => (vol.multiVolFiles = <<>> /\ vol.err = ErrNil)

\* C18, amended: the first-volume path is empty and the error is returned
\* when the path is relative and the working directory is not known; the
\* order is by part number when every part number fits in an int.
C18_VolumesOfSetOfInts ==
    (VolDone /\ IsPartName(volBase)) =>
        /\ vol.isMultiVol
        /\ IF getwdFails /\ ~Absolute(targetPath)
           THEN vol.firstVolFullPath = <<>> /\ vol.err = ErrGetwd
           ELSE vol.firstVolFullPath = FirstVolume /\ vol.err = ErrNil
        /\ ListsSiblings
        /\ (\A i \in 1..Len(vol.multiVolFiles) :
                Numbered(vol.multiVolFiles[i])
                    => FitsInt(StripZeros(PartOf(vol.multiVolFiles[i]))))
           => SmallerNumberFirst
        /\ BadPattern(volBase) => vol.multiVolFiles = <<>>

C18_Witness ==
    /\ VolDone
    /\ targetPath = <<"d","/","a",".","p","a","r","t","2",".","r","a","r">>
    /\ dirEntries = {<<"a",".","p","a","r","t","1",".","r","a","r">>, <<"a",".","p","a","r","t","2",".","r","a","r">>, <<"a",".","p","a","r","t","1","0",".","r","a","r">>}
    /\ ~getwdFails
    /\ vol.isMultiVol
    /\ vol.firstVolFullPath = <<"/","w","/","d","/","a",".","p","a","r","t","1",".","r","a","r">>
    /\ vol.multiVolFiles = <<<<"d","/","a",".","p","a","r","t","1",".","r","a","r">>, <<"d","/","a",".","p","a","r","t","2",".","r","a","r">>, <<"d","/","a",".","p","a","r","t","1","0",".","r","a","r">>>>
    /\ vol.err = ErrNil

-----------------------------------------------------------------------------
(* The cached path of the executable.                                      *)

\* C19: under any interleaving of the public operations every write to the
\* cached executable path is made while holding the mutex, and a non-empty
\* cached path never changes.
C19_GuardedAndImmutable ==
    /\ ~unguardedWrite
    /\ ~changedAfterSet

-----------------------------------------------------------------------------
(* readCloser.Close.                                                       *)

AtWait == InClose /\ closeSteps[callerPc] = "wait"

\* C20: Close closes the stdout pipe before it waits for the process: the
\* process is never waited for while the pipe is open, and, the child
\* exiting once its output pipe is closed, every call of Close returns,
\* also when the caller has read none or only part of the data.
C20_CloseReturns ==
    /\ [](AtWait => ~readOpen)
    /\ InClose ~> (callerPc = Returned)

C20_Witness ==
    /\ callerPc = Returned
    /\ nRead = 0
    /\ total > PipeCap
    /\ toWrite > 0
    /\ childPc = "exited"

-----------------------------------------------------------------------------
(* The first volume of a set.                                              *)

\* The digits of a name <basename>.part<N>.rar.
NumberOf(name) ==
    SubSeq(name, (CHOOSE s \in Splits(name) : TRUE)[1] + 6,
                 (CHOOSE s \in Splits(name) : TRUE)[2])

\* The word between the base name and the digits, as the name spells it.
PartWordOf(name) ==
    SubSeq(name, Len(BnameOf(name)) + 1, Len(BnameOf(name)) + 5)

\* The entries of the directory that are the first volume of the set of the
\* target: its name with a part number of value 1.
FirstVolumesOfSet ==
    {e \in dirEntries :
        /\ IsPartName(e)
        /\ BnameOf(e) = BnameOf(volBase)
        /\ PartWordOf(e) = PartWordOf(volBase)
        /\ ExtOf(e) = ExtOf(volBase)
        /\ StripZeros(NumberOf(e)) = <<"1">>}

\* The target is a volume of a set whose first volume is in the directory,
\* and the working directory is known.
VolumeOfSet ==
    /\ VolDone
    /\ IsPartName(volBase)
    /\ volBase \in dirEntries
    /\ FirstVolumesOfSet # {}
    /\ ~getwdFails

\* C21: when the target is a volume of a set whose first volume exists in
\* the same directory (part number 1 with or without leading zeros, "part"
\* in any letter case), the first-volume path names that file, that file is
\* the first element of the volume list, and the target is in the list.
C21_FirstVolumeExists ==
    VolumeOfSet =>
        /\ FileName(vol.firstVolFullPath) \in FirstVolumesOfSet
        /\ vol.multiVolFiles # <<>>
        /\ FileName(vol.multiVolFiles[1]) = FileName(vol.firstVolFullPath)
        /\ \E i \in 1..Len(vol.multiVolFiles) : FileName(vol.multiVolFiles[i]) = volBase

-----------------------------------------------------------------------------
(* ExtractToWriter.                                                        *)

Extracted == xPc = "done"

InArchive == \E i \in 1..Len(xEntries) : xEntries[i] = xName

\* GetFileReader succeeded: the name is in the archive, and the pipe and
\* the process were made.
GotReader == InArchive /\ xEnv.pipeErr = ErrNil /\ xEnv.startErr = ErrNil

\* C22: ExtractToWriter starts a process only when the name equals the name
\* of an entry (otherwise it returns "file not in the archive" and starts
\* none); after a successful GetFileReader it calls Close on the reader
\* exactly once, whether the copy succeeded or failed, and returns the copy
\* error when there is one and the Close error otherwise.
C22_ExtractClosesOnce ==
    Extracted =>
        /\ xOut.spawned > 0 => InArchive
        /\ ~InArchive => (xOut.err = ErrNotInArchive /\ xOut.spawned = 0)
        /\ GotReader =>
              /\ xOut.closes = 1
              /\ xOut.err = (IF xEnv.copyErr # ErrNil THEN xEnv.copyErr
                             ELSE xEnv.waitErr)
        /\ ~GotReader => xOut.closes = 0

C22_Witness ==
    /\ Extracted
    /\ GotReader
    /\ xEnv.copyErr = ErrCopy
    /\ xEnv.waitErr = ErrWait
    /\ xOut = [err |-> ErrCopy, spawned |-> 1, closes |-> 1]

=============================================================================
